---- MODULE Spec2Model ----
(***************************************************************************)
(* apiscope: the capture engine (bin/capture.js) and the skill synthesizer *)
(* (generate-skill.js) as state machines.                                  *)
(*                                                                         *)
(* A JavaScript string is a sequence of one-character strings.  A URL      *)
(* string is kept pre-split as [scheme, host, rest]: whether it starts     *)
(* with "https://", the dot-separated labels of its host, and the          *)
(* characters after the host (path, then "?query").  A string that is no   *)
(* absolute URL has scheme = FALSE, host = <<>> and all its text in rest.  *)
(***************************************************************************)
EXTENDS Integers, Sequences, FiniteSets, TLC

VARIABLES
    REDACT,            \* capture.js:26, the --redact flag
    pendingRequests,   \* capture.js:179, requestId -> object (NoObj: absent)
    heap,              \* the PendingRequest objects created so far, by identity
    calls,             \* cdpSend calls still waiting for their reply
    cdpId,             \* capture.js:141, cdpSend._id
    capturedByDomain,  \* capture.js:181, domain -> sequence of objects
    totalCaptured,     \* capture.js:182
    shuttingDown,      \* capture.js:295
    timerArmed,        \* capture.js:278, shutdownTimer not yet fired or cleared
    exited,            \* process.exit was called
    files,             \* domain -> the contents written to its session file
    monitoring,        \* capture.js:198, connections whose message handler is on
    bodyArg,           \* capture.js:109, 117: the argument of a body function
    bodyOut,           \* what redactBody or truncateBody returned for it
    noiseUrl,          \* capture.js:75, the argument of isNoiseDomain
    noiseOut,          \* what isNoiseDomain returned for it
    promises,          \* capture.js:140, the promises cdpSend returned, in call order
    urlStr,            \* generate-skill: the argument of normalizePath
    normalized,        \* normalizePath(urlStr)
    renormalized,      \* normalizePath(normalized)
    normDone,          \* normalizePath has been applied
    capture,           \* generate-skill.js:164, the capture file read by main
    SKILL_NAME,        \* generate-skill.js:20, the --name argument (<<>>: absent)
    docs,              \* the skillContent of each run of main so far
    clock,             \* days gone by since the capture was read
    analysis,          \* generate-skill.js:180-221, what main found in the corpus
    describeCall,      \* generate-skill.js:82, the arguments of describeType
    described          \* what the call returned

capVars == <<REDACT, pendingRequests, heap, calls, cdpId, capturedByDomain,
             totalCaptured, shuttingDown, timerArmed, exited, files, monitoring>>

normVars == <<urlStr, normalized, renormalized, normDone>>

synVars == <<capture, SKILL_NAME, docs, clock, analysis, describeCall, described>>

bodyVars == <<bodyArg, bodyOut, noiseUrl, noiseOut, promises>>

vars == <<capVars, bodyVars, normVars, synVars>>

----------------------------------------------------------------------------
(* Bounds of the model *)

\* PendingRequest objects created in one run
MaxObjs == 2

\* the page targets main connected to, and the transport's request identifiers
Conns == {"page1", "page2"}
RequestIds == {"r1", "r2"}

\* Map.get of an absent key
NoObj == 0

----------------------------------------------------------------------------
(* Strings *)

Min(a, b) == IF a < b THEN a ELSE b
Max(a, b) == IF a > b THEN a ELSE b

DigitChars == {"0", "1", "2", "3", "4", "5", "6", "7", "8", "9"}
HexChars == DigitChars \cup {"a", "b", "c", "d", "e", "f", "A", "B", "C", "D", "E", "F"}

UpperChars == <<"A", "B", "C", "D", "E", "F", "G", "H", "I", "J", "K", "L", "M",
                "N", "O", "P", "Q", "R", "S", "T", "U", "V", "W", "X", "Y", "Z">>
LowerChars == <<"a", "b", "c", "d", "e", "f", "g", "h", "i", "j", "k", "l", "m",
                "n", "o", "p", "q", "r", "s", "t", "u", "v", "w", "x", "y", "z">>

\* the /i flag: one character, lower-cased
ToLower(c) ==
    IF \E k \in 1..Len(UpperChars) : UpperChars[k] = c
    THEN LowerChars[CHOOSE k \in 1..Len(UpperChars) : UpperChars[k] = c]
    ELSE c

\* pat occurs in s at position i
MatchesAt(s, i, pat) ==
    /\ i >= 1
    /\ i + Len(pat) - 1 <= Len(s)
    /\ \A k \in 1..Len(pat) : s[i + k - 1] = pat[k]

\* pat occurs in s at position i, ignoring case (pat is lower case)
MatchesAtNoCase(s, i, pat) ==
    /\ i >= 1
    /\ i + Len(pat) - 1 <= Len(s)
    /\ \A k \in 1..Len(pat) : ToLower(s[i + k - 1]) = pat[k]

----------------------------------------------------------------------------
(* new URL(url): hostname and pathname *)

\* new URL(u) throws for a string that is no absolute URL
UrlParses(u) == u.scheme /\ Len(u.host) > 0

\* position of the first "?" or "#" of s, Len(s) + 1 if there is none
PathEnd(s) ==
    IF \E i \in 1..Len(s) : s[i] \in {"?", "#"}
    THEN CHOOSE i \in 1..Len(s) :
            /\ s[i] \in {"?", "#"}
            /\ \A j \in 1..(i - 1) : s[j] \notin {"?", "#"}
    ELSE Len(s) + 1

\* the URL parser percent-encodes the characters of the path percent-encode
\* set; of the characters the model uses these are "{" and "}"
PercentEncode(c) ==
    CASE c = "{" -> <<"%", "7", "B">>
      [] c = "}" -> <<"%", "7", "D">>
      [] OTHER -> <<c>>

RECURSIVE EncodePath(_)
EncodePath(s) ==
    IF s = <<>> THEN <<>> ELSE PercentEncode(Head(s)) \o EncodePath(Tail(s))

\* new URL(u).pathname, for a u that parses
Pathname(u) ==
    LET raw == SubSeq(u.rest, 1, PathEnd(u.rest) - 1)
    IN  IF raw = <<>> THEN <<"/">>
        ELSE IF \A i \in 1..Len(raw) : PercentEncode(raw[i]) = <<raw[i]>> THEN raw
        ELSE EncodePath(raw)

----------------------------------------------------------------------------
(* Noise and asset filter, capture.js:38-96 *)

NOISE_DOMAINS == {
    <<"google-analytics", "com">>, <<"www", "google-analytics", "com">>,
    <<"analytics", "google", "com">>, <<"googletagmanager", "com">>,
    <<"www", "googletagmanager", "com">>, <<"googlesyndication", "com">>,
    <<"pagead2", "googlesyndication", "com">>, <<"doubleclick", "net">>,
    <<"ad", "doubleclick", "net">>, <<"google", "com">>, <<"www", "google", "com">>,
    <<"facebook", "com">>, <<"www", "facebook", "com">>,
    <<"connect", "facebook", "net">>, <<"facebook", "net">>,
    <<"www", "facebook", "net">>, <<"stripe", "com">>, <<"js", "stripe", "com">>,
    <<"api", "stripe", "com">>, <<"m", "stripe", "com">>, <<"sentry", "io">>,
    <<"sentry-cdn", "com">>, <<"hotjar", "com">>, <<"static", "hotjar", "com">>,
    <<"script", "hotjar", "com">>, <<"segment", "io">>, <<"api", "segment", "io">>,
    <<"cdn", "segment", "com">>, <<"datadome", "co">>, <<"api-js", "datadome", "co">>,
    <<"recaptcha", "net">>, <<"www", "recaptcha", "net">>, <<"gstatic", "com">>,
    <<"www", "gstatic", "com">>, <<"newrelic", "com">>, <<"bam", "nr-data", "net">>,
    <<"js-agent", "newrelic", "com">>, <<"fullstory", "com">>,
    <<"rs", "fullstory", "com">>, <<"optimizely", "com">>,
    <<"cdn", "optimizely", "com">>, <<"quantserve", "com">>,
    <<"pixel", "quantserve", "com">>, <<"branch", "io">>, <<"api", "branch", "io">>,
    <<"braze", "com">>, <<"sdk", "iad-01", "braze", "com">>, <<"amplitude", "com">>,
    <<"api", "amplitude", "com">>, <<"mixpanel", "com">>, <<"api", "mixpanel", "com">>,
    <<"intercom", "io">>, <<"widget", "intercom", "io">>, <<"clarity", "ms">>,
    <<"www", "clarity", "ms">>, <<"mouseflow", "com">>, <<"crazyegg", "com">>,
    <<"tiktok", "com">>, <<"analytics", "tiktok", "com">>, <<"pinterest", "com">>,
    <<"ct", "pinterest", "com">>, <<"snapchat", "com">>, <<"tr", "snapchat", "com">> }

STATIC_EXTENSIONS == {
    <<"j", "s">>,
    <<"c", "s", "s">>,
    <<"p", "n", "g">>,
    <<"j", "p", "g">>,
    <<"j", "p", "e", "g">>,
    <<"g", "i", "f">>,
    <<"s", "v", "g">>,
    <<"i", "c", "o">>,
    <<"w", "o", "f", "f">>,
    <<"w", "o", "f", "f", "2">>,
    <<"t", "t", "f">>,
    <<"e", "o", "t">>,
    <<"m", "a", "p">>,
    <<"w", "e", "b", "p">>,
    <<"a", "v", "i", "f">> }

\* slice(i).join('.') of the host labels (i counted from 0 as in the code)
HostSlice(parts, i) == SubSeq(parts, i + 1, Len(parts))

\* isNoiseDomain without the loop over the parent domains
isNoiseDomain_ExactOnly(url) ==
    IF ~UrlParses(url) THEN FALSE ELSE url.host \in NOISE_DOMAINS

isNoiseDomain(url) ==
    IF ~UrlParses(url) THEN FALSE
    ELSE LET parts == url.host
         IN  \/ parts \in NOISE_DOMAINS
             \/ \E i \in 1..(Len(parts) - 2) : HostSlice(parts, i) \in NOISE_DOMAINS

\* /\.(js|css|...)(\?|$)/i tested on the pathname
isStaticAsset(url) ==
    IF ~UrlParses(url) THEN FALSE
    ELSE LET p == Pathname(url)
         IN  \E i \in 1..Len(p) :
                /\ p[i] = "."
                /\ \E ext \in STATIC_EXTENSIONS :
                      /\ MatchesAtNoCase(p, i + 1, ext)
                      /\ \/ i + Len(ext) + 1 > Len(p)
                         \/ p[i + Len(ext) + 1] = "?"

\* getDomain that returns the whole hostname
getDomain_Hostname(url) ==
    IF ~UrlParses(url) THEN <<"unknown">> ELSE url.host

getDomain(url) ==
    IF ~UrlParses(url) THEN <<"unknown">>
    ELSE LET parts == url.host
         IN  IF Len(parts) > 2 THEN SubSeq(parts, Len(parts) - 1, Len(parts))
             ELSE parts

----------------------------------------------------------------------------
(* Bodies, capture.js:73, 109-123 *)

(* A body is null or a string.  A string is described by what it is made   *)
(* of: kind "text" is a text of `keep` characters whose content is src: a  *)
(* JSON value (the text is that value, serialized) or raw words (a text    *)
(* that is no JSON); kind "trunc" is the first `keep` characters of such a *)
(* text followed by "\n...[truncated at MAX_BODY_SIZE bytes, total         *)
(* <total>]"; "redacted" is the sentinel of redactBody; "failed" is        *)
(* "[failed: <errorText>]".                                                *)

\* contents: JSON values, and text that is no JSON
JNull == [t |-> "null"]
JNumber == [t |-> "number"]
JBoolean == [t |-> "boolean"]
JString(val, len) == [t |-> "string", val |-> val, len |-> len]
JArray(items) == [t |-> "array", items |-> items]
JObject(fields) == [t |-> "object", fields |-> fields]
Raw(words) == [t |-> "raw", words |-> words]
NoContent == [t |-> "none"]

MAX_BODY_SIZE == 10240
NullStatus == -1

NULL == [kind |-> "null", src |-> NoContent, keep |-> 0, total |-> 0]
Text(content, n) == [kind |-> "text", src |-> content, keep |-> n, total |-> 0]
REDACTED == [kind |-> "redacted", src |-> NoContent, keep |-> 0, total |-> 0]

\* number of decimal digits of n
Digits(n) == IF n < 10 THEN 1 ELSE IF n < 100 THEN 2 ELSE IF n < 1000 THEN 3
             ELSE IF n < 10000 THEN 4 ELSE IF n < 100000 THEN 5 ELSE 6

\* length of "\n...[truncated at 10240 bytes, total <total>]"
MarkerLen(total) == 18 + Digits(MAX_BODY_SIZE) + 14 + Digits(total) + 1

\* length of the error text of a loading-failed notification
ErrorLen(err) == IF err = "" THEN 0 ELSE 15

\* body.length
Length(body) ==
    CASE body.kind = "null" -> 0
      [] body.kind = "text" -> body.keep
      [] body.kind = "trunc" -> body.keep + MarkerLen(body.total)
      [] body.kind = "redacted" -> 36
      [] body.kind = "failed" -> 10 + body.keep

\* !body
Falsy(body) == body.kind = "null" \/ Length(body) = 0

\* body || null
OrNull(body) == IF Falsy(body) THEN NULL ELSE body

SENSITIVE_WORDS == {"password", "passwd", "card_number", "cardnumber", "card_num",
    "cardnum", "cvv", "cvc", "ssn", "social_security", "socialsecurity",
    "secret_key", "secretkey", "private_key", "privatekey"}

\* the words of a text: its raw words, or the keys and strings of its JSON
RECURSIVE ContentWords(_)
ContentWords(c) ==
    CASE c.t = "raw" -> {c.words[k] : k \in 1..Len(c.words)}
      [] c.t = "string" -> {c.val}
      [] c.t = "array" -> UNION {ContentWords(c.items[k]) : k \in 1..Len(c.items)}
      [] c.t = "object" ->
            UNION {{c.fields[k][1]} \cup ContentWords(c.fields[k][2]) :
                      k \in 1..Len(c.fields)}
      [] OTHER -> {}

\* SENSITIVE_PATTERNS.test(body): one of the words of the text is matched
SensitiveTest(body) ==
    /\ body.kind = "text"
    /\ ContentWords(body.src) \cap SENSITIVE_WORDS # {}

\* truncateBody that cuts a body of MAX_BODY_SIZE characters too
truncateBody_AtCap(body) ==
    IF Falsy(body) THEN body
    ELSE IF Length(body) >= MAX_BODY_SIZE
         THEN [kind |-> "trunc", src |-> body.src, keep |-> MAX_BODY_SIZE,
               total |-> Length(body)]
         ELSE body

\* redactBody that does not look at the --redact flag
redactBody_Always(body, redact) ==
    IF Falsy(body) THEN body
    ELSE IF SensitiveTest(body) THEN REDACTED
    ELSE body

redactBody(body, redact) ==
    IF Falsy(body) \/ ~redact THEN body
    ELSE IF SensitiveTest(body) THEN REDACTED
    ELSE body

truncateBody(body) ==
    IF Falsy(body) THEN body
    ELSE IF Length(body) > MAX_BODY_SIZE
         THEN [kind |-> "trunc", src |-> body.src, keep |-> MAX_BODY_SIZE,
               total |-> Length(body)]
         ELSE body

\* `[failed: ${errorText || 'unknown'}]`
FailedBody(errorText) ==
    IF errorText = ""
    THEN [kind |-> "failed", src |-> Raw(<<"unknown">>), keep |-> 7, total |-> 0]
    ELSE [kind |-> "failed", src |-> Raw(<<errorText>>),
          keep |-> ErrorLen(errorText), total |-> 0]

----------------------------------------------------------------------------
(* What the browser can send: the inputs of the capture engine *)

ApiHost == <<"api", "example", "com">>
ShopHost == <<"shop", "io">>
NoiseHost == <<"o1", "ingest", "sentry", "io">>

Url(host, rest) == [scheme |-> TRUE, host |-> host, rest |-> rest]

ItemsUrl == Url(ApiHost, <<"/", "v", "1", "/", "i", "t", "e", "m", "s", "?", "p", "a", "g", "e", "=", "2">>)
LoginUrl == Url(ShopHost, <<"/", "l", "o", "g", "i", "n">>)
NoiseUrl == Url(NoiseHost, <<"/", "a", "p", "i", "/", "1", "/", "e", "n", "v", "e", "l", "o", "p", "e">>)
AssetUrl == Url(ApiHost, <<"/", "s", "t", "a", "t", "i", "c", "/", "a", "p", "p", ".", "J", "S">>)

\* source texts of bodies: their words, and the lengths they come in
LoginForm == Raw(<<"user", "=", "bob", "&", "password", "=", "hunter2">>)
ItemsJson == JObject(<<<<"items", JArray(<<>>)>>>>)
SmallLen == 26

AcceptHeaders == <<<<<<"A", "c", "c", "e", "p", "t">>, <<"*", "/", "*">>>>>>
FormHeaders == <<<<<<"O", "r", "i", "g", "i", "n">>, <<"n", "u", "l", "l">>>>>>

\* the params of the Network.requestWillBeSent notifications of the model
RequestSamples == {
    [type |-> "XHR", method |-> "GET", url |-> ItemsUrl, headers |-> AcceptHeaders,
     postData |-> NULL],
    [type |-> "Fetch", method |-> "POST", url |-> LoginUrl, headers |-> FormHeaders,
     postData |-> Text(LoginForm, MAX_BODY_SIZE + 1)],
    [type |-> "XHR", method |-> "GET", url |-> NoiseUrl, headers |-> AcceptHeaders,
     postData |-> NULL],
    [type |-> "Fetch", method |-> "GET", url |-> AssetUrl, headers |-> AcceptHeaders,
     postData |-> NULL],
    [type |-> "Document", method |-> "GET", url |-> ItemsUrl, headers |-> AcceptHeaders,
     postData |-> NULL] }

\* the params.response of the Network.responseReceived notifications
ResponseSamples == {
    [status |-> 200, headers |-> AcceptHeaders] }

\* {"password":"hunter2"}
PasswordJson == JObject(<<<<"password", JString("hunter2", 7)>>>>)

\* the bodies a body function is given: none, the empty text, and texts with
\* and without a sensitive word, short and around MAX_BODY_SIZE
BodyLengths == {1, SmallLen, MAX_BODY_SIZE - 1, MAX_BODY_SIZE, MAX_BODY_SIZE + 1,
                MAX_BODY_SIZE + SmallLen}
Bodies ==
    {NULL, Text(Raw(<<>>), 0)}
        \cup {Text(c, n) : c \in {LoginForm, ItemsJson, PasswordJson}, n \in BodyLengths}

\* errorText of the Network.loadingFailed notifications ("": absent)
ErrorTexts == {"net::ERR_FAILED", ""}

\* result.body of the replies to Network.getResponseBody
ReplyBodies == {
    Text(Raw(<<>>), 0),
    Text(ItemsJson, SmallLen),
    Text(ItemsJson, MAX_BODY_SIZE + 1) }

\* why a Network.getResponseBody call rejects: an error reply, a reply with
\* neither result nor error (result.body then throws in the then-branch), or
\* the 10 s timer of cdpSend
RejectReasons == {"error", "noresult", "timeout"}

----------------------------------------------------------------------------
(* The Map pendingRequests, in insertion order, capture.js:179 *)

Has(m, k) == \E i \in 1..Len(m) : m[i].id = k

Get(m, k) ==
    IF Has(m, k) THEN m[CHOOSE i \in 1..Len(m) : m[i].id = k].obj ELSE NoObj

\* Map.set: an existing key keeps its place
Set(m, k, o) ==
    IF Has(m, k)
    THEN [i \in 1..Len(m) |-> IF m[i].id = k THEN [id |-> k, obj |-> o] ELSE m[i]]
    ELSE Append(m, [id |-> k, obj |-> o])

Delete(m, k) == SelectSeq(m, LAMBDA e : e.id # k)

----------------------------------------------------------------------------
(* The capture engine, capture.js:158-343 *)

Alive == ~exited

\* capture.js:267-275; `h` is the heap the entry is read from
storeEntry(store, h, o) ==
    LET domain == getDomain(h[o].url)
    IN  IF domain \in DOMAIN store
        THEN [store EXCEPT ![domain] = Append(@, o)]
        ELSE [d \in (DOMAIN store) \cup {domain} |->
                IF d = domain THEN <<o>> ELSE store[d]]

\* capture.js:214-224
NewPendingRequest(s, redact) ==
    [method |-> s.method,
     url |-> s.url,
     requestHeaders |-> s.headers,
     requestBody |-> redactBody(OrNull(s.postData), redact),
     resourceType |-> s.type,
     responseStatus |-> NullStatus,
     responseHeaders |-> <<>>,
     responseBody |-> NULL]

\* Filtered without the tests of the URL (lines 210-211)
Filtered_TypeOnly ==
    {s \in RequestSamples : s.type \notin {"XHR", "Fetch"}}

\* capture.js:207-211: the early returns of the handler, for every sample
Filtered ==
    {s \in RequestSamples :
        \/ s.type \notin {"XHR", "Fetch"}
        \/ isNoiseDomain(s.url)
        \/ isStaticAsset(s.url)}

\* capture.js:203-225: Network.requestWillBeSent on connection c
RequestWillBeSent(c, rid, s) ==
    /\ Alive
    /\ c \in monitoring
    /\ UNCHANGED <<bodyVars, normVars, synVars, monitoring>>
    /\ IF s \in Filtered
       THEN UNCHANGED <<heap, pendingRequests>>
       ELSE /\ Len(heap) < MaxObjs
            /\ heap' = Append(heap, NewPendingRequest(s, REDACT))
            /\ pendingRequests' = Set(pendingRequests, rid, Len(heap) + 1)
    /\ UNCHANGED <<REDACT, calls, cdpId, capturedByDomain, totalCaptured,
                   shuttingDown, timerArmed, exited, files>>

\* capture.js:227-233: Network.responseReceived on connection c
ResponseReceived(c, rid, r) ==
    /\ Alive
    /\ c \in monitoring
    /\ UNCHANGED <<bodyVars, normVars, synVars, monitoring>>
    /\ LET entry == Get(pendingRequests, rid)
       IN  IF entry = NoObj THEN UNCHANGED heap
           ELSE heap' = [heap EXCEPT ![entry].responseStatus = r.status,
                                     ![entry].responseHeaders = r.headers]
    /\ UNCHANGED <<REDACT, pendingRequests, calls, cdpId, capturedByDomain,
                   totalCaptured, shuttingDown, timerArmed, exited, files>>

\* capture.js:139-155 as called at 242: the call gets the next id and waits
cdpSend(cs, id, ws, entry) == cs \cup {[id |-> id, ws |-> ws, entry |-> entry]}

\* LoadingFinished with line 239 (pendingRequests.delete) left out
LoadingFinished_KeepsPending(c, rid) ==
    /\ Alive
    /\ c \in monitoring
    /\ UNCHANGED <<bodyVars, normVars, synVars, monitoring>>
    /\ LET entry == Get(pendingRequests, rid)
       IN  IF entry = NoObj THEN UNCHANGED <<calls, cdpId>>
           ELSE /\ cdpId' = cdpId + 1
                /\ calls' = cdpSend(calls, cdpId + 1, c, entry)
    /\ UNCHANGED <<REDACT, pendingRequests, heap, capturedByDomain, totalCaptured,
                   shuttingDown, timerArmed, exited, files>>

\* LoadingFinished with line 238 (the return for an unknown identifier) left
\* out
LoadingFinished_NoReturn(c, rid) ==
    /\ Alive
    /\ c \in monitoring
    /\ UNCHANGED <<bodyVars, normVars, synVars, monitoring>>
    /\ pendingRequests' = Delete(pendingRequests, rid)
    /\ cdpId' = cdpId + 1
    /\ calls' = cdpSend(calls, cdpId + 1, c, Get(pendingRequests, rid))
    /\ UNCHANGED <<REDACT, heap, capturedByDomain, totalCaptured, shuttingDown,
                   timerArmed, exited, files>>

\* capture.js:235-251: Network.loadingFinished on connection c
LoadingFinished(c, rid) ==
    /\ Alive
    /\ c \in monitoring
    /\ UNCHANGED <<bodyVars, normVars, synVars, monitoring>>
    /\ LET entry == Get(pendingRequests, rid)
       IN  IF entry = NoObj THEN UNCHANGED <<pendingRequests, calls, cdpId>>
           ELSE /\ pendingRequests' = Delete(pendingRequests, rid)
                /\ cdpId' = cdpId + 1
                /\ calls' = cdpSend(calls, cdpId + 1, c, entry)
    /\ UNCHANGED <<REDACT, heap, capturedByDomain, totalCaptured, shuttingDown,
                   timerArmed, exited, files>>

\* the loading-failed handler without pendingRequests.delete
LoadingFailed_KeepsId(c, rid, errorText) ==
    /\ Alive
    /\ c \in monitoring
    /\ UNCHANGED <<bodyVars, normVars, synVars, monitoring>>
    /\ LET entry == Get(pendingRequests, rid)
       IN  IF entry = NoObj
           THEN UNCHANGED <<heap, capturedByDomain, totalCaptured>>
           ELSE /\ heap' = [heap EXCEPT ![entry].responseStatus = 0,
                                        ![entry].responseBody = FailedBody(errorText)]
                /\ capturedByDomain' = storeEntry(capturedByDomain, heap', entry)
                /\ totalCaptured' = totalCaptured + 1
    /\ UNCHANGED <<REDACT, pendingRequests, calls, cdpId, shuttingDown, timerArmed,
                   exited, files>>

\* capture.js:253-261: Network.loadingFailed on connection c
LoadingFailed(c, rid, errorText) ==
    /\ Alive
    /\ c \in monitoring
    /\ UNCHANGED <<bodyVars, normVars, synVars, monitoring>>
    /\ LET entry == Get(pendingRequests, rid)
       IN  IF entry = NoObj
           THEN UNCHANGED <<pendingRequests, heap, capturedByDomain, totalCaptured>>
           ELSE /\ pendingRequests' = Delete(pendingRequests, rid)
                /\ heap' = [heap EXCEPT ![entry].responseStatus = 0,
                                        ![entry].responseBody = FailedBody(errorText)]
                /\ capturedByDomain' = storeEntry(capturedByDomain, heap', entry)
                /\ totalCaptured' = totalCaptured + 1
    /\ UNCHANGED <<REDACT, calls, cdpId, shuttingDown, timerArmed, exited, files>>

\* capture.js:143-150, 243-246: the reply to a body fetch carries a result
BodyReply(call, body) ==
    /\ Alive
    /\ UNCHANGED <<bodyVars, normVars, synVars, monitoring>>
    /\ call \in calls
    /\ call.entry # NoObj
    /\ calls' = calls \ {call}
    /\ heap' = [heap EXCEPT ![call.entry].responseBody = truncateBody(OrNull(body))]
    /\ capturedByDomain' = storeEntry(capturedByDomain, heap', call.entry)
    /\ totalCaptured' = totalCaptured + 1
    /\ UNCHANGED <<REDACT, pendingRequests, cdpId, shuttingDown, timerArmed,
                   exited, files>>

\* the catch-branch that only drops the entry
BodyReject_Drops(call, why) ==
    /\ Alive
    /\ UNCHANGED <<bodyVars, normVars, synVars, monitoring>>
    /\ call \in calls
    /\ call.entry # NoObj
    /\ why \in RejectReasons
    /\ calls' = calls \ {call}
    /\ UNCHANGED <<REDACT, pendingRequests, heap, cdpId, capturedByDomain,
                   totalCaptured, shuttingDown, timerArmed, exited, files>>

\* capture.js:142, 148, 247-250: the body fetch rejects
BodyReject(call, why) ==
    /\ Alive
    /\ UNCHANGED <<bodyVars, normVars, synVars, monitoring>>
    /\ call \in calls
    /\ call.entry # NoObj
    /\ why \in RejectReasons
    /\ calls' = calls \ {call}
    /\ capturedByDomain' = storeEntry(capturedByDomain, heap, call.entry)
    /\ totalCaptured' = totalCaptured + 1
    /\ UNCHANGED <<REDACT, pendingRequests, heap, cdpId, shuttingDown, timerArmed,
                   exited, files>>

\* the flush that stores only the first pending request of the Map
FlushPending_FirstOnly(store, h, pending) ==
    IF pending = <<>> THEN store ELSE storeEntry(store, h, Head(pending).obj)

\* capture.js:305-309: the pending requests are stored in the Map's order
RECURSIVE FlushPending(_, _, _)
FlushPending(store, h, pending) ==
    IF pending = <<>> THEN store
    ELSE FlushPending(storeEntry(store, h, Head(pending).obj), h, Tail(pending))

\* capture.js:319-325: the capture written for a domain (JSON.stringify)
CaptureOf(domain, requests, h) ==
    [domain |-> domain, requests |-> [i \in 1..Len(requests) |-> h[requests[i]]]]

\* WriteCaptureFiles writing the file once per request of the bucket
WriteCaptureFiles_PerRequest(fs, store, h) ==
    [d \in (DOMAIN fs) \cup (DOMAIN store) |->
        IF d \in DOMAIN store
        THEN (IF d \in DOMAIN fs THEN fs[d] ELSE <<>>)
                 \o [i \in 1..Len(store[d]) |-> CaptureOf(d, store[d], h)]
        ELSE fs[d]]

\* capture.js:315-331: one file per domain of the store
WriteCaptureFiles(fs, store, h) ==
    [d \in (DOMAIN fs) \cup (DOMAIN store) |->
        IF d \in DOMAIN store
        THEN (IF d \in DOMAIN fs THEN fs[d] ELSE <<>>)
                 \o <<CaptureOf(d, store[d], h)>>
        ELSE fs[d]]

\* capture.js:296-340
shutdown ==
    IF shuttingDown
    THEN UNCHANGED <<shuttingDown, pendingRequests, capturedByDomain,
                     totalCaptured, files, exited>>
    ELSE /\ shuttingDown' = TRUE
         /\ capturedByDomain' = FlushPending(capturedByDomain, heap, pendingRequests)
         /\ totalCaptured' = totalCaptured + Len(pendingRequests)
         /\ pendingRequests' = <<>>
         /\ files' = WriteCaptureFiles(files, capturedByDomain', heap)
         /\ exited' = TRUE

\* capture.js:278-281: the duration timer fires
TimerFires ==
    /\ Alive
    /\ monitoring = Conns
    /\ UNCHANGED <<bodyVars, normVars, synVars, monitoring>>
    /\ timerArmed
    /\ timerArmed' = FALSE
    /\ shutdown
    /\ UNCHANGED <<REDACT, heap, calls, cdpId>>

\* capture.js:283-293: SIGINT or SIGTERM
Signal(sig) ==
    /\ Alive
    /\ monitoring = Conns
    /\ UNCHANGED <<bodyVars, normVars, synVars, monitoring>>
    /\ sig \in {"SIGINT", "SIGTERM"}
    /\ timerArmed' = FALSE
    /\ shutdown
    /\ UNCHANGED <<REDACT, heap, calls, cdpId>>

NoBodyCall == [op |-> "none", once |-> NULL, twice |-> NULL]

NotAsked == [done |-> FALSE, noise |-> FALSE]

CallIdle == promises = <<>>

NoiseIdle ==
    /\ noiseUrl = Url(<<>>, <<>>)
    /\ noiseOut = NotAsked
    /\ CallIdle

BodyIdle ==
    /\ bodyArg = NULL
    /\ bodyOut = NoBodyCall
    /\ NoiseIdle

BodyInit ==
    /\ bodyArg \in Bodies
    /\ bodyOut = NoBodyCall
    /\ NoiseIdle

\* hostnames of up to MaxLabels labels, and a URL that new URL() rejects
MaxLabels == 4
HostLabels == {"api", "stripe", "com", "sentry", "io", "evil"}
Hostnames == UNION {[1..n -> HostLabels] : n \in 1..MaxLabels}

NoiseInit ==
    /\ bodyArg = NULL
    /\ bodyOut = NoBodyCall
    /\ noiseUrl \in {Url(h, <<"/">>) : h \in Hostnames}
                      \cup {[scheme |-> FALSE, host |-> <<>>, rest |-> <<"/", "x">>]}
    /\ noiseOut = NotAsked
    /\ CallIdle

\* protocol calls made in one run, and the ids a message can carry
MaxCalls == 3
MessageIds == 1..(MaxCalls + 1)

\* capture.js:139-155, handler without the test of data.id
CallMessage_AnyId(ws, id, kind) ==
    /\ promises' = [i \in DOMAIN promises |->
          IF promises[i].listening /\ promises[i].ws = ws
          THEN [promises[i] EXCEPT
                  !.listening = FALSE,
                  !.timer = IF @ = "armed" THEN "cleared" ELSE @,
                  !.outcome = IF @ = "pending" THEN kind ELSE @]
          ELSE promises[i]]
    /\ UNCHANGED <<bodyArg, bodyOut, noiseUrl, noiseOut, capVars, normVars, synVars>>

\* capture.js:139-154, cdpSend(ws, ...): the executor takes the next id, arms the
\* timeout, registers the handler on ws and sends the call
CallSend(ws) ==
    /\ Len(promises) < MaxCalls
    /\ cdpId' = cdpId + 1
    /\ promises' = Append(promises,
          [id |-> cdpId + 1, ws |-> ws, outcome |-> "pending",
           listening |-> TRUE, timer |-> "armed"])
    /\ UNCHANGED <<bodyArg, bodyOut, noiseUrl, noiseOut, normVars, synVars,
                   REDACT, pendingRequests, heap, calls, capturedByDomain,
                   totalCaptured, shuttingDown, timerArmed, exited, files, monitoring>>

\* capture.js:143-151, a message arrives on ws: every handler registered on ws
\* runs; the one whose id the message carries clears its timeout, removes
\* itself and resolves or rejects, which has no effect on a settled promise
CallMessage(ws, id, kind) ==
    /\ promises' = [i \in DOMAIN promises |->
          IF promises[i].listening /\ promises[i].ws = ws /\ promises[i].id = id
          THEN [promises[i] EXCEPT
                  !.listening = FALSE,
                  !.timer = IF @ = "armed" THEN "cleared" ELSE @,
                  !.outcome = IF @ = "pending" THEN kind ELSE @]
          ELSE promises[i]]
    /\ UNCHANGED <<bodyArg, bodyOut, noiseUrl, noiseOut, capVars, normVars, synVars>>

\* capture.js:142, the 10 s timeout of call i fires: reject, handler stays on ws
CallTimeout(i) ==
    /\ i \in DOMAIN promises
    /\ promises[i].timer = "armed"
    /\ promises' = [promises EXCEPT
          ![i].timer = "fired",
          ![i].outcome = IF @ = "pending" THEN "timeout" ELSE @]
    /\ UNCHANGED <<bodyArg, bodyOut, noiseUrl, noiseOut, capVars, normVars, synVars>>

\* capture.js:75-88, one call of isNoiseDomain
AskNoise ==
    /\ ~noiseOut.done
    /\ noiseOut' = [done |-> TRUE, noise |-> isNoiseDomain(noiseUrl)]
    /\ UNCHANGED <<bodyArg, bodyOut, noiseUrl, promises, capVars, normVars, synVars>>

\* capture.js:109-113, one call of redactBody
Redact ==
    /\ bodyOut = NoBodyCall
    /\ bodyOut' = [op |-> "redact", once |-> redactBody(bodyArg, REDACT), twice |-> NULL]
    /\ UNCHANGED <<bodyArg, noiseUrl, noiseOut, promises, capVars, normVars, synVars>>

\* capture.js:117-123, truncateBody called on a body and again on its result
Truncate ==
    /\ bodyOut = NoBodyCall
    /\ bodyOut' = [op |-> "truncate", once |-> truncateBody(bodyArg),
                   twice |-> truncateBody(truncateBody(bodyArg))]
    /\ UNCHANGED <<bodyArg, noiseUrl, noiseOut, promises, capVars, normVars, synVars>>

CaptureInit ==
    /\ REDACT \in BOOLEAN
    /\ pendingRequests = <<>>
    /\ heap = <<>>
    /\ calls = {}
    /\ cdpId = Cardinality(Conns)
    /\ capturedByDomain = <<>>
    /\ totalCaptured = 0
    /\ shuttingDown = FALSE
    /\ timerArmed = TRUE
    /\ exited = FALSE
    /\ files = <<>>
    /\ monitoring = Conns

CaptureNext ==
    \/ \E c \in Conns, rid \in RequestIds, s \in RequestSamples :
          RequestWillBeSent(c, rid, s)
    \/ \E c \in Conns, rid \in RequestIds, r \in ResponseSamples :
          ResponseReceived(c, rid, r)
    \/ \E c \in Conns, rid \in RequestIds : LoadingFinished(c, rid)
    \/ \E c \in Conns, rid \in RequestIds, e \in ErrorTexts : LoadingFailed(c, rid, e)
    \/ \E call \in calls, body \in ReplyBodies : BodyReply(call, body)
    \/ \E call \in calls, why \in RejectReasons : BodyReject(call, why)
    \/ TimerFires
    \/ \E sig \in {"SIGINT", "SIGTERM"} : Signal(sig)


--------------------------------------------------------------------------------
(* The setup of main, capture.js:184-201: for each page in turn the socket *)
(* is opened, Network.enable is called and awaited, and then the message   *)
(* handler of the page is put on.  A call of main, as opposed to one of a  *)
(* handler, has no entry: NoObj.                                           *)

\* capture.js:172, 186: the pages in the order main connects to them
Pages == <<"page1", "page2">>

\* the page main is connecting to
NextPage == Pages[Cardinality(monitoring) + 1]

\* main waits for the reply to Network.enable
Enabling == \E call \in calls : call.entry = NoObj

\* capture.js:189-195: the socket of the next page opens, Network.enable is sent
WsOpen ==
    /\ Alive
    /\ monitoring # Conns
    /\ ~Enabling
    /\ cdpId' = cdpId + 1
    /\ calls' = cdpSend(calls, cdpId + 1, NextPage, NoObj)
    /\ UNCHANGED <<REDACT, pendingRequests, heap, capturedByDomain, totalCaptured,
                   shuttingDown, timerArmed, exited, files, monitoring>>
    /\ UNCHANGED <<bodyVars, normVars, synVars>>

\* capture.js:189-192, 345-348: the socket fails to open, main rejects and
\* its catch ends the process with exit code 1
WsError ==
    /\ Alive
    /\ monitoring # Conns
    /\ ~Enabling
    /\ exited' = TRUE
    /\ UNCHANGED <<REDACT, pendingRequests, heap, calls, cdpId, capturedByDomain,
                   totalCaptured, shuttingDown, timerArmed, files, monitoring>>
    /\ UNCHANGED <<bodyVars, normVars, synVars>>

\* capture.js:143-150, 195-201, 278: Network.enable is answered, the message
\* handler of the page is put on; after the last page the timer is scheduled
\* and the signal handlers are registered
EnableReply(call) ==
    /\ Alive
    /\ call \in calls
    /\ call.entry = NoObj
    /\ calls' = calls \ {call}
    /\ monitoring' = monitoring \cup {call.ws}
    /\ timerArmed' = (monitoring' = Conns)
    /\ UNCHANGED <<REDACT, pendingRequests, heap, cdpId, capturedByDomain,
                   totalCaptured, shuttingDown, exited, files>>
    /\ UNCHANGED <<bodyVars, normVars, synVars>>

\* why a Network.enable call rejects: an error reply, or the 10 s timer
EnableRejectReasons == {"error", "timeout"}

\* capture.js:142, 148, 195, 345-348: Network.enable rejects, the await in
\* main throws, main rejects and its catch ends the process with exit code 1
EnableReject(call, why) ==
    /\ Alive
    /\ call \in calls
    /\ call.entry = NoObj
    /\ why \in EnableRejectReasons
    /\ calls' = calls \ {call}
    /\ exited' = TRUE
    /\ UNCHANGED <<REDACT, pendingRequests, heap, cdpId, capturedByDomain,
                   totalCaptured, shuttingDown, timerArmed, files, monitoring>>
    /\ UNCHANGED <<bodyVars, normVars, synVars>>

\* capture.js:178-186: main has found the pages and connects to the first
MainInit ==
    /\ REDACT \in BOOLEAN
    /\ pendingRequests = <<>>
    /\ heap = <<>>
    /\ calls = {}
    /\ cdpId = 0
    /\ capturedByDomain = <<>>
    /\ totalCaptured = 0
    /\ shuttingDown = FALSE
    /\ timerArmed = FALSE
    /\ exited = FALSE
    /\ files = <<>>
    /\ monitoring = {}

MainNext ==
    \/ WsOpen
    \/ WsError
    \/ \E call \in calls : EnableReply(call)
    \/ \E call \in calls, why \in EnableRejectReasons : EnableReject(call, why)
    \/ CaptureNext

------------------------------------------------------------------------
(* Endpoint normalizer, generate-skill.js:36-52 *)

UUID_PLACEHOLDER == <<"{", "u", "u", "i", "d", "}">>
HASH_PLACEHOLDER == <<"/", "{", "h", "a", "s", "h", "}">>
ID_PLACEHOLDER == <<"/", "{", "i", "d", "}">>
TS_PLACEHOLDER == <<"/", "{", "t", "s", "}">>

\* /[0-9a-f]{8}-[0-9a-f]{4}-[0-9a-f]{4}-[0-9a-f]{4}-[0-9a-f]{12}/i at position i
UuidAt(s, i) ==
    /\ i + 35 <= Len(s)
    /\ \A k \in 0..35 :
          IF k \in {8, 13, 18, 23} THEN s[i + k] = "-" ELSE s[i + k] \in HexChars

\* String.replace with the /g flag: matches are taken left to right and the
\* scan goes on after each match
RECURSIVE ReplaceUuid(_, _)
ReplaceUuid(s, i) ==
    IF i > Len(s) THEN <<>>
    ELSE IF UuidAt(s, i) THEN UUID_PLACEHOLDER \o ReplaceUuid(s, i + 36)
    ELSE <<s[i]>> \o ReplaceUuid(s, i + 1)

\* the number of characters of class cls that follow position i
RunLen(s, i, cls) ==
    IF \E j \in i..Len(s) : s[j] \notin cls
    THEN (CHOOSE j \in i..Len(s) :
             /\ s[j] \notin cls
             /\ \A k \in i..(j - 1) : s[k] \in cls) - i
    ELSE Len(s) - i + 1

\* /\/cls{lo,hi}(?=\/|$)/ at position i: the number of class characters the
\* greedy quantifier ends up with, 0 if there is no match here
SegMatch(s, i, cls, lo, hi) ==
    IF s[i] # "/" THEN 0
    ELSE LET run == RunLen(s, i + 1, cls)
             ok == {n \in lo..Min(hi, run) :
                       \/ i + n + 1 > Len(s)
                       \/ s[i + n + 1] = "/"}
         IN  IF ok = {} THEN 0 ELSE CHOOSE n \in ok : \A m \in ok : m <= n

\* ReplaceSeg without the /g flag: only the first match is replaced
RECURSIVE ReplaceSeg_FirstOnly(_, _, _, _, _, _)
ReplaceSeg_FirstOnly(s, i, cls, lo, hi, ph) ==
    IF i > Len(s) THEN <<>>
    ELSE LET n == SegMatch(s, i, cls, lo, hi)
         IN  IF n > 0 THEN ph \o SubSeq(s, i + n + 1, Len(s))
             ELSE <<s[i]>> \o ReplaceSeg_FirstOnly(s, i + 1, cls, lo, hi, ph)

\* p.replace(/\/cls{lo,hi}(?=\/|$)/g, ph), scanning from position i
RECURSIVE ReplaceSeg(_, _, _, _, _, _)
ReplaceSeg(s, i, cls, lo, hi, ph) ==
    IF i > Len(s) THEN <<>>
    ELSE LET n == SegMatch(s, i, cls, lo, hi)
         IN  IF n > 0 THEN ph \o ReplaceSeg(s, i + n + 1, cls, lo, hi, ph)
             ELSE <<s[i]>> \o ReplaceSeg(s, i + 1, cls, lo, hi, ph)

\* line 41
ReplaceUuids(p) == ReplaceUuid(p, 1)

\* line 43: /\/[0-9a-f]{8,64}(?=\/|$)/gi
ReplaceHashes(p) == ReplaceSeg(p, 1, HexChars, 8, 64, HASH_PLACEHOLDER)

\* ReplaceIds with \d+ for \d{2,}
ReplaceIds_OneDigit(p) == ReplaceSeg(p, 1, DigitChars, 1, Len(p), ID_PLACEHOLDER)

\* line 45: /\/\d{2,}(?=\/|$)/g
ReplaceIds(p) == ReplaceSeg(p, 1, DigitChars, 2, Len(p), ID_PLACEHOLDER)

\* line 47: /\/\d{10,13}(?=\/|$)/g
ReplaceTimestamps(p) == ReplaceSeg(p, 1, DigitChars, 10, 13, TS_PLACEHOLDER)

\* lines 41-47, in the order of the code
NormalizeRules(p) == ReplaceTimestamps(ReplaceIds(ReplaceHashes(ReplaceUuids(p))))

\* a string that is a path and no URL
PathString(p) == [scheme |-> FALSE, host |-> <<>>, rest |-> p]

normalizePath(u) ==
    IF UrlParses(u) THEN PathString(NormalizeRules(Pathname(u))) ELSE u

\* the inputs of the model: the paths of the documented examples, and every
\* path of up to MaxSegs segments drawn from SegmentSamples
MaxSegs == 2

UuidSeg ==
    <<"0", "1", "2", "3", "4", "5", "6", "7", "-", "8", "9", "a", "b", "-", "c",
      "d", "e", "f", "-", "0", "1", "2", "3", "-", "4", "5", "6", "7", "8", "9",
      "a", "b", "c", "d", "e", "f">>

SegmentSamples == {
    <<"u", "s", "e", "r", "s">>,
    <<"3">>,
    <<"4", "8", "2", "9", "1">>,
    <<"1", "2", "3", "4", "5", "6", "7", "8">>,
    <<"1", "7", "0", "0", "0", "0", "0", "0", "0", "0", "0", "0", "0">>,
    <<"0", "A", "1", "b", "2", "C", "3", "d", "4", "e">>,
    UuidSeg,
    <<"v">> \o UuidSeg,
    <<"{", "u", "u", "i", "d", "}">>,
    <<"{", "h", "a", "s", "h", "}">>,
    <<"{", "i", "d", "}">>,
    <<"{", "t", "s", "}">> }

RECURSIVE JoinPath(_)
JoinPath(segs) ==
    IF segs = <<>> THEN <<>> ELSE <<"/">> \o Head(segs) \o JoinPath(Tail(segs))

UsersOrdersPath == JoinPath(<<<<"u", "s", "e", "r", "s">>, <<"4", "8", "2", "9", "1">>,
                              <<"o", "r", "d", "e", "r", "s">>, <<"3">>>>)
SyncPath == JoinPath(<<<<"s", "y", "n", "c">>, <<"1", "7", "0", "0", "0", "0", "0", "0", "0", "0", "0", "0", "0">>>>)
ItemsViewPath == JoinPath(<<<<"i", "t", "e", "m", "s">>, UuidSeg, <<"v", "i", "e", "w">>>>)

SamplePaths ==
    {UsersOrdersPath, SyncPath, ItemsViewPath}
        \cup {JoinPath(segs) : segs \in UNION {[1..n -> SegmentSamples] : n \in 1..MaxSegs}}

QuerySuffix == <<"?", "p", "a", "g", "e", "=", "2">>

NormInputs ==
    {[scheme |-> s, host |-> IF s THEN ApiHost ELSE <<>>, rest |-> p \o q] :
        s \in BOOLEAN, p \in SamplePaths, q \in {<<>>, QuerySuffix}}

NormInit ==
    /\ urlStr \in NormInputs
    /\ normalized = PathString(<<>>)
    /\ renormalized = PathString(<<>>)
    /\ normDone = FALSE

\* normalizePath applied to the input, and again to its result
Normalize ==
    /\ ~normDone
    /\ normalized' = normalizePath(urlStr)
    /\ renormalized' = normalizePath(normalized')
    /\ normDone' = TRUE
    /\ UNCHANGED <<urlStr, capVars, bodyVars, synVars>>

NormIdle ==
    /\ urlStr = PathString(<<>>)
    /\ normalized = PathString(<<>>)
    /\ renormalized = PathString(<<>>)
    /\ normDone = FALSE

NoAnalysis == <<>>

NotDescribed == [done |-> FALSE, schema |-> <<>>]

SchemaIdle ==
    /\ describeCall = [val |-> JNull, depth |-> 0, maxDepth |-> 0]
    /\ described = NotDescribed

CorpusIdle ==
    /\ capture = <<>>
    /\ SKILL_NAME = <<>>
    /\ docs = <<>>
    /\ clock = 0
    /\ analysis = NoAnalysis

SynthIdle == CorpusIdle /\ SchemaIdle

----------------------------------------------------------------------------
(* The skill synthesizer, generate-skill.js: strings *)

\* s.toLowerCase()
LowerCase(s) == [i \in 1..Len(s) |-> ToLower(s[i])]

\* s.includes(pat)
Includes(s, pat) == pat = <<>> \/ \E i \in 1..Len(s) : MatchesAt(s, i, pat)

\* s.indexOf(c) + 1
IndexOf(s, c) ==
    IF \E i \in 1..Len(s) : s[i] = c
    THEN CHOOSE i \in 1..Len(s) : s[i] = c /\ \A j \in 1..(i - 1) : s[j] # c
    ELSE 0

\* s.split(sep)
RECURSIVE Split(_, _)
Split(s, sep) ==
    LET i == IndexOf(s, sep)
    IN  IF i = 0 THEN <<s>>
        ELSE <<SubSeq(s, 1, i - 1)>> \o Split(SubSeq(s, i + 1, Len(s)), sep)

\* s.trim()
RECURSIVE Trim(_)
Trim(s) ==
    IF s # <<>> /\ Head(s) = " " THEN Trim(Tail(s))
    ELSE IF s # <<>> /\ s[Len(s)] = " " THEN Trim(SubSeq(s, 1, Len(s) - 1))
    ELSE s

\* parts.join(sep)
RECURSIVE Join(_, _)
Join(parts, sep) ==
    IF parts = <<>> THEN <<>>
    ELSE IF Len(parts) = 1 THEN parts[1]
    ELSE parts[1] \o sep \o Join(Tail(parts), sep)

\* `${u}` for a URL string of the model
StringOf(u) ==
    IF u.scheme THEN <<"https://">> \o Join([i \in 1..Len(u.host) |-> <<u.host[i]>>], <<".">>) \o u.rest
    ELSE u.rest

\* the keys of new URL(u).searchParams in their order (the keys of the model
\* have no percent-escapes to decode)
SearchParamKeys(u) ==
    LET s == u.rest
        q == PathEnd(s)
        afterQ == IF q <= Len(s) /\ s[q] = "?" THEN SubSeq(s, q + 1, Len(s)) ELSE <<>>
        h == IndexOf(afterQ, "#")
        query == IF h = 0 THEN afterQ ELSE SubSeq(afterQ, 1, h - 1)
        pieces == SelectSeq(Split(query, "&"), LAMBDA x : x # <<>>)
    IN  [i \in 1..Len(pieces) |-> Split(pieces[i], "=")[1]]

\* Set.add: insertion order, no duplicates
RECURSIVE AddAll(_, _)
AddAll(set, keys) ==
    IF keys = <<>> THEN set
    ELSE AddAll(IF \E i \in 1..Len(set) : set[i] = Head(keys)
                THEN set ELSE Append(set, Head(keys)),
                Tail(keys))

\* m.set(key, (m.get(key) || 0) + 1) for a Map kept as its entries in
\* insertion order
CountUp(m, key) ==
    IF \E i \in 1..Len(m) : m[i][1] = key
    THEN [i \in 1..Len(m) |-> IF m[i][1] = key THEN <<key, m[i][2] + 1>> ELSE m[i]]
    ELSE Append(m, <<key, 1>>)

RECURSIVE CountUpAll(_, _)
CountUpAll(m, keys) ==
    IF keys = <<>> THEN m ELSE CountUpAll(CountUp(m, Head(keys)), Tail(keys))

\* the items whose count is c, in their order
RECURSIVE WithCount(_, _, _)
WithCount(items, counts, c) ==
    IF items = <<>> THEN <<>>
    ELSE (IF Head(counts) = c THEN <<Head(items)>> ELSE <<>>)
             \o WithCount(Tail(items), Tail(counts), c)

\* items.sort((a, b) => count(b) - count(a)): a stable sort, counts from c down
RECURSIVE SortDescending(_, _, _)
SortDescending(items, counts, c) ==
    IF c < 0 THEN <<>>
    ELSE WithCount(items, counts, c) \o SortDescending(items, counts, c - 1)

----------------------------------------------------------------------------
(* Schema inference, generate-skill.js:72-101 *)

\* JSON.parse(body) returns: the body is a complete JSON text
Parses(body) ==
    /\ body.kind = "text"
    /\ body.keep > 0
    /\ body.src.t \notin {"raw", "none"}

\* describeType with the bound applied one level deeper
RECURSIVE describeType_OneDeeper(_, _, _)
describeType_OneDeeper(val, depth, maxDepth) ==
    CASE val.t = "null" -> <<"null">>
      [] val.t = "array" ->
            IF Len(val.items) = 0 THEN <<"[]">>
            ELSE IF depth > maxDepth
                 THEN <<"[...", ToString(Len(val.items)), " items]">>
                 ELSE <<"[">> \o describeType_OneDeeper(val.items[1], depth + 1, maxDepth)
                          \o <<"] (", ToString(Len(val.items)), " items)">>
      [] val.t = "object" ->
            IF depth > maxDepth
            THEN <<"{...", ToString(Len(val.fields)), " keys}">>
            ELSE LET fields == [i \in 1..Len(val.fields) |->
                                   <<"  ", val.fields[i][1], ": ">>
                                       \o describeType_OneDeeper(val.fields[i][2], depth + 1,
                                                                 maxDepth)]
                 IN  <<"{\n">> \o Join(fields, <<"\n">>) \o <<"\n}">>
      [] OTHER -> <<val.t>>

RECURSIVE describeType(_, _, _)
describeType(val, depth, maxDepth) ==
    CASE val.t = "null" -> <<"null">>
      [] val.t = "array" ->
            IF Len(val.items) = 0 THEN <<"[]">>
            ELSE IF depth >= maxDepth
                 THEN <<"[...", ToString(Len(val.items)), " items]">>
                 ELSE <<"[">> \o describeType(val.items[1], depth + 1, maxDepth)
                          \o <<"] (", ToString(Len(val.items)), " items)">>
      [] val.t = "object" ->
            IF depth >= maxDepth
            THEN <<"{...", ToString(Len(val.fields)), " keys}">>
            ELSE LET entries == SubSeq(val.fields, 1, Min(15, Len(val.fields)))
                     fields == [i \in 1..Len(entries) |->
                                   <<"  ", entries[i][1], ": ">>
                                       \o describeType(entries[i][2], depth + 1, maxDepth)]
                     extra == IF Len(val.fields) > 15
                              THEN <<"\n  ...", ToString(Len(val.fields) - 15), " more keys">>
                              ELSE <<>>
                 IN  <<"{\n">> \o Join(fields, <<"\n">>) \o extra \o <<"\n}">>
      [] val.t = "string" ->
            IF val.len > 80 THEN <<"string (", ToString(val.len), " chars)">>
            ELSE <<"\"", val.val, "\"">>
      [] OTHER -> <<val.t>>

\* null is <<>>
inferSchema(jsonStr, maxDepth) ==
    IF Parses(jsonStr) THEN describeType(jsonStr.src, 0, maxDepth) ELSE <<>>

DefaultMaxDepth == 2

----------------------------------------------------------------------------
(* Auth pattern detection, generate-skill.js:104-132 *)

AUTHORIZATION == <<"a", "u", "t", "h", "o", "r", "i", "z", "a", "t", "i", "o", "n">>
COOKIE == <<"c", "o", "o", "k", "i", "e">>
CSRF == <<"c", "s", "r", "f">>
TOKEN == <<"t", "o", "k", "e", "n">>
X_API == <<"x", "-", "a", "p", "i">>

\* line 114-115
AuthLabel(value) ==
    LET first == Split(value, " ")[1]
        scheme == IF first = <<>> THEN <<"unknown">> ELSE first
    IN  <<"Authorization: ">> \o scheme \o <<" ...">>

\* line 118
NamesToken(lower) ==
    Includes(lower, CSRF) \/ Includes(lower, TOKEN) \/ Includes(lower, X_API)

\* line 123
CookieNamesOf(value) ==
    LET parts == Split(value, ";")
        names == [i \in 1..Len(parts) |-> Split(Trim(parts[i]), "=")[1]]
    IN  SelectSeq(names, LAMBDA n : n # <<>>)

\* lines 111-127 for one header
DetectHeader(acc, key, value) ==
    LET lower == LowerCase(key)
        a1 == IF lower = AUTHORIZATION
              THEN CountUp(acc.authHeaders, AuthLabel(value)) ELSE acc.authHeaders
        a2 == IF NamesToken(lower) THEN CountUp(a1, key) ELSE a1
        c == IF lower = COOKIE
             THEN CountUpAll(acc.cookieNames, CookieNamesOf(value)) ELSE acc.cookieNames
    IN  [authHeaders |-> a2, cookieNames |-> c]

RECURSIVE DetectHeaders(_, _)
DetectHeaders(acc, headers) ==
    IF headers = <<>> THEN acc
    ELSE DetectHeaders(DetectHeader(acc, Head(headers)[1], Head(headers)[2]),
                       Tail(headers))

RECURSIVE DetectRequests(_, _)
DetectRequests(acc, requests) ==
    IF requests = <<>> THEN acc
    ELSE DetectRequests(DetectHeaders(acc, Head(requests).requestHeaders),
                        Tail(requests))

detectAuthPatterns(requests) ==
    DetectRequests([authHeaders |-> <<>>, cookieNames |-> <<>>], requests)

----------------------------------------------------------------------------
(* main, generate-skill.js:135-397 *)

\* the key made of the method and the URL as it was captured
endpointKey_RawUrl(method, url) == <<method, " ">> \o StringOf(url)

endpointKey(method, url) == <<method, " ">> \o StringOf(normalizePath(url))

\* lines 183-203: the Map of endpoints as its entries in insertion order
RECURSIVE GroupRequests(_, _)
GroupRequests(endpoints, requests) ==
    IF requests = <<>> THEN endpoints
    ELSE LET req == Head(requests)
             key == endpointKey(req.method, req.url)
             withKey == IF \E i \in 1..Len(endpoints) : endpoints[i].key = key
                        THEN endpoints
                        ELSE Append(endpoints,
                                    [key |-> key,
                                     method |-> req.method,
                                     normalizedPath |-> StringOf(normalizePath(req.url)),
                                     requests |-> <<>>,
                                     queryParams |-> <<>>])
             params == IF UrlParses(req.url) THEN SearchParamKeys(req.url) ELSE <<>>
         IN  GroupRequests(
                 [i \in 1..Len(withKey) |->
                     IF withKey[i].key = key
                     THEN [withKey[i] EXCEPT !.requests = Append(@, req),
                                             !.queryParams = AddAll(@, params)]
                     ELSE withKey[i]],
                 Tail(requests))

\* line 206
sortedEndpoints(requests) ==
    LET endpoints == GroupRequests(<<>>, requests)
    IN  SortDescending(endpoints,
                       [i \in 1..Len(endpoints) |-> Len(endpoints[i].requests)],
                       Len(requests))

\* line 212, doubled: twice Math.max(1, requests.length * 0.5)
Threshold2(requests) == Max(2, Len(requests))

\* the largest count of the entries of a Map
MaxCount(m) == IF m = <<>> THEN 0 ELSE CHOOSE c \in {m[i][2] : i \in 1..Len(m)} :
                                          \A i \in 1..Len(m) : m[i][2] <= c

\* the entries with count > threshold, by count descending
Consistent_Above(m, requests) ==
    LET kept == SelectSeq(m, LAMBDA e : 2 * e[2] > Threshold2(requests))
    IN  SortDescending(kept, [i \in 1..Len(kept) |-> kept[i][2]], MaxCount(kept))

\* lines 213-221: the entries with count >= threshold, by count descending
Consistent(m, requests) ==
    LET kept == SelectSeq(m, LAMBDA e : 2 * e[2] >= Threshold2(requests))
    IN  SortDescending(kept, [i \in 1..Len(kept) |-> kept[i][2]], MaxCount(kept))

consistentCookies(requests) ==
    LET entries == Consistent(detectAuthPatterns(requests).cookieNames, requests)
    IN  [i \in 1..Len(entries) |-> entries[i][1]]

consistentAuthHeaders(requests) ==
    Consistent(detectAuthPatterns(requests).authHeaders, requests)

\* line 224: domain.replace(/\.com$|\.net$|\.org$|\.io$/, '').replace(/\./g, '-')
domainPrefix(domain) ==
    LET n == Len(domain)
        stem == IF n >= 2 /\ domain[n] \in {"com", "net", "org", "io"}
                THEN SubSeq(domain, 1, n - 1) ELSE domain
    IN  Join([i \in 1..Len(stem) |-> <<stem[i]>>], <<"-">>)

DomainString(domain) == Join([i \in 1..Len(domain) |-> <<domain[i]>>], <<".">>)

\* line 225
skillName(name, domain) ==
    IF name # <<>> THEN name ELSE <<"api-">> \o domainPrefix(domain)

\* line 229: new Date().toISOString().split('T')[0], day clock of the month
\* the capture was read in
ISODate(day) ==
    <<"2026", "-", "11", "-">>
        \o (IF day + 1 < 10 THEN <<"0", ToString(day + 1)>> ELSE <<ToString(day + 1)>>)

\* the character U+0060 and the code fence made of three of them
Backtick == "U+0060"
Fence == "U+0060U+0060U+0060"

\* a line of the document: its text, and the body text spliced into it
Line(text) == [text |-> text, body |-> NULL]

\* body.slice(0, n)
Slice(body, n) ==
    IF Length(body) <= n THEN body
    ELSE [kind |-> CASE body.kind \in {"text", "trunc"} -> "prefix"
                     [] body.kind = "redacted" -> "redacted-prefix"
                     [] OTHER -> "failed-prefix",
          src |-> body.src, keep |-> n, total |-> 0]

\* body.startsWith('[')
StartsWithBracket(body) ==
    CASE body.kind \in {"redacted", "failed"} -> TRUE
      [] body.kind \in {"text", "trunc"} ->
            /\ body.keep > 0
            /\ \/ body.src.t = "array"
               \/ body.src.t = "raw" /\ body.src.words # <<>> /\ body.src.words[1] = "["
      [] OTHER -> FALSE

\* the first request of the Endpoint, whatever it carries
Representative_First(ep) == ep.requests[1]

\* lines 291-292
Representative(ep) ==
    LET ok(r) == ~Falsy(r.responseBody) /\ r.responseStatus >= 200 /\ r.responseStatus < 400
    IN  IF \E i \in 1..Len(ep.requests) : ok(ep.requests[i])
        THEN ep.requests[CHOOSE i \in 1..Len(ep.requests) :
                            /\ ok(ep.requests[i])
                            /\ \A j \in 1..(i - 1) : ~ok(ep.requests[j])]
        ELSE ep.requests[1]

\* line 301: r.responseStatus || 0
StatusOf(r) == IF r.responseStatus = NullStatus THEN 0 ELSE r.responseStatus

\* the members of a set of numbers in ascending order, as Object.entries
\* lists integer keys
RECURSIVE Ascending(_)
Ascending(S) ==
    IF S = {} THEN <<>>
    ELSE LET m == CHOOSE x \in S : \A y \in S : x <= y
         IN  <<m>> \o Ascending(S \ {m})

\* lines 299-304
StatusCodes(ep) ==
    LET statuses == Ascending({StatusOf(ep.requests[i]) : i \in 1..Len(ep.requests)})
        count(s) == Cardinality({i \in 1..Len(ep.requests) : StatusOf(ep.requests[i]) = s})
    IN  Join([k \in 1..Len(statuses) |->
                 <<ToString(statuses[k]), " (", ToString(count(statuses[k])), "x)">>],
             <<", ">>)

skipHeaders == {
    <<"c", "o", "o", "k", "i", "e">>,
    <<"h", "o", "s", "t">>,
    <<"u", "s", "e", "r", "-", "a", "g", "e", "n", "t">>,
    <<"a", "c", "c", "e", "p", "t">>,
    <<"a", "c", "c", "e", "p", "t", "-", "l", "a", "n", "g", "u", "a", "g", "e">>,
    <<"a", "c", "c", "e", "p", "t", "-", "e", "n", "c", "o", "d", "i", "n", "g">>,
    <<"c", "o", "n", "n", "e", "c", "t", "i", "o", "n">>,
    <<"r", "e", "f", "e", "r", "e", "r">>,
    <<"s", "e", "c", "-", "c", "h", "-", "u", "a">>,
    <<"s", "e", "c", "-", "c", "h", "-", "u", "a", "-", "m", "o", "b", "i", "l", "e">>,
    <<"s", "e", "c", "-", "c", "h", "-", "u", "a", "-", "p", "l", "a", "t", "f", "o", "r", "m">>,
    <<"s", "e", "c", "-", "f", "e", "t", "c", "h", "-", "d", "e", "s", "t">>,
    <<"s", "e", "c", "-", "f", "e", "t", "c", "h", "-", "m", "o", "d", "e">>,
    <<"s", "e", "c", "-", "f", "e", "t", "c", "h", "-", "s", "i", "t", "e">>,
    <<"o", "r", "i", "g", "i", "n">>,
    <<"p", "r", "a", "g", "m", "a">>,
    <<"c", "a", "c", "h", "e", "-", "c", "o", "n", "t", "r", "o", "l">>,
    <<"c", "o", "n", "t", "e", "n", "t", "-", "l", "e", "n", "g", "t", "h">>,
    <<"i", "f", "-", "n", "o", "n", "e", "-", "m", "a", "t", "c", "h">>,
    <<"i", "f", "-", "m", "o", "d", "i", "f", "i", "e", "d", "-", "s", "i", "n", "c", "e">> }

\* headers[name] || ''
HeaderValue(headers, name) ==
    IF \E i \in 1..Len(headers) : headers[i][1] = name
    THEN headers[CHOOSE i \in 1..Len(headers) : headers[i][1] = name][2]
    ELSE <<>>

\* lines 320-325
RECURSIVE HeaderParts(_)
HeaderParts(headers) ==
    IF headers = <<>> THEN <<>>
    ELSE LET key == Head(headers)[1]
             value == Head(headers)[2]
             displayVal == IF Len(value) > 80 THEN SubSeq(value, 1, 80) \o <<"...">>
                           ELSE value
         IN  (IF LowerCase(key) \in skipHeaders THEN <<>>
              ELSE <<Line(<<"  -H '">> \o key \o <<": ">> \o displayVal \o <<"'">>)>>)
                 \o HeaderParts(Tail(headers))

\* lines 309-338: the parts of the curl command, joined by ' \\\n'
CurlParts(representative) ==
    LET headers == representative.requestHeaders
        upper == HeaderValue(headers, <<"C", "o", "n", "t", "e", "n", "t", "-", "T", "y", "p", "e">>)
        contentType == IF upper # <<>> THEN upper
                       ELSE HeaderValue(headers, <<"c", "o", "n", "t", "e", "n", "t", "-", "t", "y", "p", "e">>)
        data == [text |-> <<"  -d '", "'">>,
                 body |-> Slice(representative.requestBody, 500)]
        parts == <<Line(<<"curl -s '">> \o StringOf(representative.url) \o <<"'">>),
                   Line(<<"  -H 'Cookie: $COOKIES'">>)>>
                    \o HeaderParts(headers)
                    \o (IF Falsy(representative.requestBody) THEN <<>>
                        ELSE IF Includes(contentType, <<"j", "s", "o", "n">>)
                             THEN <<Line(<<"  -H 'Content-Type: application/json'">>), data>>
                             ELSE <<data>>)
    IN  [i \in 1..Len(parts) |->
            IF i < Len(parts)
            THEN [parts[i] EXCEPT !.text = Append(@, " \\")]
            ELSE parts[i]]

\* lines 343-364
SchemaBlock(title, schema) ==
    IF schema = <<>> THEN <<>>
    ELSE <<Line(<<title>>), Line(<<Fence>>), Line(schema), Line(<<Fence>>), Line(<<>>)>>

\* lines 283-364: the section of one endpoint
EndpointSection(ep) ==
    LET queryStr == IF Len(ep.queryParams) > 0
                    THEN <<"?">> \o Join([i \in 1..Len(ep.queryParams) |->
                                            ep.queryParams[i] \o <<"={">>
                                                \o ep.queryParams[i] \o <<"}">>],
                                         <<"&">>)
                    ELSE <<>>
        representative == Representative(ep)
    IN  <<Line(<<"### ", ep.method, " ">> \o ep.normalizedPath \o queryStr
                   \o <<"  (observed ", ToString(Len(ep.requests)), "x)">>),
          Line(<<>>),
          Line(<<"**Example URL:** ", Backtick>> \o StringOf(representative.url) \o <<Backtick>>),
          Line(<<>>),
          Line(<<"**Status codes:** ">> \o StatusCodes(ep)),
          Line(<<>>),
          Line(<<Fence, "bash">>)>>
            \o CurlParts(representative)
            \o <<Line(<<Fence>>), Line(<<>>)>>
            \o (IF ~Falsy(representative.requestBody)
                      /\ ep.method \in {"POST", "PUT", "PATCH"}
                THEN SchemaBlock("**Request body schema:**",
                                 inferSchema(representative.requestBody, DefaultMaxDepth))
                ELSE <<>>)
            \o (IF ~Falsy(representative.responseBody)
                      /\ ~StartsWithBracket(representative.responseBody)
                THEN SchemaBlock("**Response schema:**",
                                 inferSchema(representative.responseBody, DefaultMaxDepth))
                ELSE <<>>)

RECURSIVE EndpointSections(_)
EndpointSections(eps) ==
    IF eps = <<>> THEN <<>>
    ELSE EndpointSection(Head(eps)) \o EndpointSections(Tail(eps))

\* capture.cdpPort || 9222
DefaultPort == 9222

\* lines 228-384: the lines of SKILL.md (the non-ASCII characters of the
\* literals are written in ASCII); lines.join('\n') + '\n' is the sequence
skillContent(cap, name, now) ==
    LET domain == DomainString(cap.domain)
        requests == cap.requests
        duration == IF cap.duration = 0 THEN "?" ELSE ToString(cap.duration)
        port == ToString(IF cap.cdpPort = 0 THEN DefaultPort ELSE cap.cdpPort)
        sname == skillName(name, cap.domain)
        authHeaders == consistentAuthHeaders(requests)
        cookies == consistentCookies(requests)
    IN  <<Line(<<"---">>),
          Line(<<"name: ">> \o sname),
          Line(<<"description: \"">> \o domain
                   \o <<" internal API - learned endpoints for direct curl access. Use instead of browser for repeat tasks.\"">>),
          Line(<<"metadata: {\"openclaw\":{\"emoji\":\"plug\"}}">>),
          Line(<<"---">>),
          Line(<<>>),
          Line(<<"# ">> \o domain \o <<" API (learned ">> \o now \o <<")">>),
          Line(<<>>),
          Line(<<"**WARNING:** Undocumented internal APIs learned by traffic capture. May change without notice.">>),
          Line(<<"Captured from ", ToString(Len(requests)), " API calls over ", duration, "s.">>),
          Line(<<>>),
          Line(<<"## Authentication">>),
          Line(<<>>),
          Line(<<"Cookie-based. Extract fresh cookies before each session:">>),
          Line(<<Fence, "bash">>),
          Line(<<"/opt/OpenClaw/scripts/extract-cookies.js --domain ">> \o domain
                   \o <<" --port ", port>>),
          Line(<<Fence>>),
          Line(<<>>),
          Line(<<"### Required headers">>),
          Line(<<Fence>>)>>
            \o [i \in 1..Len(authHeaders) |-> Line(authHeaders[i][1])]
            \o <<Line(<<"Cookie: <output from extract-cookies.js>">>),
                 Line(<<Fence>>),
                 Line(<<>>)>>
            \o (IF Len(cookies) > 0
                THEN <<Line(<<"### Key cookies (present in >50% of requests)">>),
                       Line(<<Backtick>>
                                \o Join(SubSeq(cookies, 1, Min(20, Len(cookies))), <<Backtick, ", ", Backtick>>)
                                \o <<Backtick>>),
                       Line(<<>>)>>
                ELSE <<>>)
            \o <<Line(<<"## Endpoints">>), Line(<<>>)>>
            \o EndpointSections(sortedEndpoints(requests))
            \o <<Line(<<"## Fallback">>),
                 Line(<<>>),
                 Line(<<"If API calls return 401/403:">>),
                 Line(<<"1. Re-extract cookies using the command above">>),
                 Line(<<"2. If still failing, the site may have changed its auth mechanism">>),
                 Line(<<"3. Fall back to using the ", Backtick, "browser", Backtick, " tool">>),
                 Line(<<"4. Report to Gannon that the API skill needs re-capture">>),
                 Line(<<>>),
                 Line(<<"## Re-capture">>),
                 Line(<<>>),
                 Line(<<"If endpoints have changed or new endpoints are needed:">>),
                 Line(<<Fence, "bash">>),
                 Line(<<"/opt/OpenClaw/scripts/capture-api.js --port ", port, " --duration 300">>),
                 Line(<<"/opt/OpenClaw/scripts/generate-api-skill.js --domain ">> \o domain
                          \o <<" --name ">> \o sname),
                 Line(<<Fence>>)>>

\* the inputs of the model: capture files of up to MaxRequests entries, read
\* with --capture and without --domain; main is run up to MaxRuns times over
\* up to MaxDays days
MaxRequests == 3
MaxRuns == 2
MaxDays == 1

Entry(method, url, requestHeaders, requestBody, status, responseBody) ==
    [method |-> method,
     url |-> url,
     requestHeaders |-> requestHeaders,
     requestBody |-> requestBody,
     resourceType |-> "XHR",
     responseStatus |-> status,
     responseHeaders |-> <<>>,
     responseBody |-> responseBody]

BearerValue == <<"B", "e", "a", "r", "e", "r", " ", "t", "o", "k", "1", "2", "3">>
CsrfValue == <<"c", "0", "f", "f", "e", "e">>
ApiKeyValue == [i \in 1..81 |-> "k"]

UserJson ==
    JObject(<<<<"id", JNumber>>,
              <<"name", JString("bob", 3)>>,
              <<"bio", JString("lorem", 81)>>,
              <<"tags", JArray(<<JString("a", 1), JString("b", 1)>>)>>,
              <<"profile", JObject(<<<<"address", JObject(<<<<"city", JNull>>>>)>>,
                                     <<"flags", JArray(<<JBoolean>>)>>>>)>>>>)
LoginJson == JObject(<<<<"user", JString("bob", 3)>>, <<"remember", JBoolean>>>>)

User48291Url == Url(ApiHost, <<"/", "u", "s", "e", "r", "s", "/", "4", "8", "2", "9", "1", "?", "p", "a", "g", "e", "=", "2", "&", "t", "a", "b", "=", "a">>)
User7731Url == Url(ApiHost, <<"/", "u", "s", "e", "r", "s", "/", "7", "7", "3", "1", "?", "p", "a", "g", "e", "=", "3">>)
ApiLoginUrl == Url(ApiHost, <<"/", "l", "o", "g", "i", "n">>)

SynthEntries == {
    Entry("GET", User48291Url,
          <<<<<<"A", "c", "c", "e", "p", "t">>, <<"*", "/", "*">>>>,
            <<<<"A", "u", "t", "h", "o", "r", "i", "z", "a", "t", "i", "o", "n">>, BearerValue>>,
            <<<<"C", "o", "o", "k", "i", "e">>, <<"t", "h", "e", "m", "e", "=", "d", "a", "r", "k", ";", " ", "s", "i", "d", "=", "a", "b", "c">>>>>>,
          NULL, 200, Text(UserJson, SmallLen)),
    Entry("GET", User7731Url,
          <<<<<<"c", "o", "o", "k", "i", "e">>, <<"s", "i", "d", "=", "x", "y", "z">>>>,
            <<<<"X", "-", "C", "S", "R", "F", "-", "T", "o", "k", "e", "n">>, CsrfValue>>>>,
          NULL, 404, NULL),
    Entry("POST", ApiLoginUrl,
          <<<<<<"c", "o", "n", "t", "e", "n", "t", "-", "t", "y", "p", "e">>, <<"a", "p", "p", "l", "i", "c", "a", "t", "i", "o", "n", "/", "j", "s", "o", "n">>>>,
            <<<<"X", "-", "A", "p", "i", "-", "K", "e", "y">>, ApiKeyValue>>>>,
          Text(LoginJson, SmallLen), 200, Text(JArray(<<JNumber>>), SmallLen)),
    Entry("GET", User48291Url,
          <<<<<<"A", "c", "c", "e", "p", "t">>, <<"*", "/", "*">>>>>>,
          NULL, 0, FailedBody("net::ERR_FAILED")),
    Entry("POST", ApiLoginUrl,
          <<<<<<"O", "r", "i", "g", "i", "n">>, <<"n", "u", "l", "l">>>>>>,
          Text(LoginForm, MAX_BODY_SIZE + 1), NullStatus,
          truncateBody(Text(LoginJson, MAX_BODY_SIZE + 1))) }

Captures ==
    {[domain |-> getDomain(ApiLoginUrl), duration |-> d, cdpPort |-> DefaultPort,
      requests |-> rs] :
        d \in {0, 300},
        rs \in UNION {[1..n -> SynthEntries] : n \in 1..MaxRequests}}

\* a corpus of 10 requests: the cookie session_id occurs in 6 of them, the
\* cookie ab in 4
CookieEntry(value) ==
    Entry("GET", ApiLoginUrl, <<<<<<"C", "o", "o", "k", "i", "e">>, value>>>>,
          NULL, 200, NULL)
SessionIdCookie == <<"s", "e", "s", "s", "i", "o", "n", "_", "i", "d", "=", "s", "1">>
AbCookie == <<"a", "b", "=", "1">>
TenRequests ==
    [i \in 1..10 |->
        CASE i <= 4 -> CookieEntry(AbCookie \o <<";", " ">> \o SessionIdCookie)
          [] i <= 6 -> CookieEntry(SessionIdCookie)
          [] OTHER -> Entry("GET", ApiLoginUrl, <<>>, NULL, 200, NULL)]

SynthInit ==
    /\ capture \in Captures
    /\ SKILL_NAME \in {<<>>, <<"shop-api">>}
    /\ docs = <<>>
    /\ clock = 0
    /\ analysis = NoAnalysis
    /\ SchemaIdle

\* generate-skill.js:399, one run of main: the document it writes
Generate ==
    /\ Len(docs) < MaxRuns
    /\ Len(capture.requests) > 0
    /\ docs' = Append(docs, skillContent(capture, SKILL_NAME, ISODate(clock)))
    /\ UNCHANGED <<capture, SKILL_NAME, clock, analysis, describeCall, described,
                   capVars, bodyVars, normVars>>

\* the date of the system clock moves on between runs
DayPasses ==
    /\ clock < MaxDays
    /\ clock' = clock + 1
    /\ UNCHANGED <<capture, SKILL_NAME, docs, analysis, describeCall, described,
                   capVars, bodyVars, normVars>>

\* generate-skill.js:180-221 and 291-292: the endpoints, the auth signals and
\* the representative of every endpoint that main derives from the corpus
Analysis(requests) ==
    LET endpoints == sortedEndpoints(requests)
    IN  [endpoints |-> endpoints,
         representatives |-> [i \in 1..Len(endpoints) |-> Representative(endpoints[i])],
         found |-> detectAuthPatterns(requests),
         cookies |-> consistentCookies(requests),
         headers |-> consistentAuthHeaders(requests)]

AnalysisInit ==
    /\ capture \in {c \in Captures : c.duration = 300}
    /\ SKILL_NAME = <<>>
    /\ docs = <<>>
    /\ clock = 0
    /\ analysis = NoAnalysis
    /\ SchemaIdle

\* corpora of requests that carry cookies: one cookie, two cookies, the same
\* cookie name twice in one Cookie header, and a token header without cookies
SidTwiceCookie == <<"s", "i", "d", "=", "a", ";", " ", "s", "i", "d", "=", "b">>
CookieEntries ==
    {CookieEntry(SessionIdCookie),
     CookieEntry(AbCookie \o <<";", " ">> \o SessionIdCookie),
     CookieEntry(SidTwiceCookie),
     Entry("GET", ApiLoginUrl,
           <<<<<<"X", "-", "C", "S", "R", "F", "-", "T", "o", "k", "e", "n">>, CsrfValue>>>>,
           NULL, 200, NULL)}

CookieCorpusInit ==
    /\ capture \in {[domain |-> getDomain(ApiLoginUrl), duration |-> 300,
                      cdpPort |-> DefaultPort, requests |-> rs] :
                        rs \in UNION {[1..n -> CookieEntries] : n \in 1..MaxRequests}}
    /\ SKILL_NAME \in {<<>>, <<"shop-api">>}
    /\ docs = <<>>
    /\ clock = 0
    /\ analysis = NoAnalysis
    /\ SchemaIdle

\* main up to the rendering of the document
Analyze ==
    /\ analysis = NoAnalysis
    /\ Len(capture.requests) > 0
    /\ analysis' = Analysis(capture.requests)
    /\ UNCHANGED <<capture, SKILL_NAME, docs, clock, describeCall, described,
                   capVars, bodyVars, normVars>>

\* JSON values nested up to MaxNest containers above an atom or an empty
\* container, described with a bound of up to MaxBound at a depth the
\* recursion reaches
MaxNest == 2
MaxBound == 3

RECURSIVE JsonValues(_)
JsonValues(n) ==
    IF n = 0 THEN {JNull, JNumber, JArray(<<>>), JObject(<<>>)}
    ELSE LET S == JsonValues(n - 1)
         IN  S \cup {JArray(<<x>>) : x \in S}
               \cup {JArray(<<x, JNumber, JNumber>>) : x \in S}
               \cup {JObject(<<<<"a", x>>>>) : x \in S}
               \cup {JObject(<<<<"a", JNumber>>, <<"b", x>>>>) : x \in S}

DescribeInit ==
    /\ describeCall \in {[val |-> v, depth |-> k, maxDepth |-> d] :
                             v \in JsonValues(MaxNest), k \in 0..MaxBound, d \in 0..MaxBound}
    /\ describeCall.depth <= describeCall.maxDepth
    /\ described = NotDescribed

\* generate-skill.js:82-101, one call of describeType
Describe ==
    /\ ~described.done
    /\ described' = [done |-> TRUE,
                     schema |-> describeType(describeCall.val, describeCall.depth,
                                             describeCall.maxDepth)]
    /\ UNCHANGED <<describeCall, capture, SKILL_NAME, docs, clock, analysis,
                   capVars, bodyVars, normVars>>

----------------------------------------------------------------------------
(* Specifications *)

CaptureIdle == CaptureInit /\ REDACT = FALSE

\* the capture engine
Init == CaptureInit /\ BodyIdle /\ NormIdle /\ SynthIdle
Next == CaptureNext
Spec == Init /\ [][Next]_vars

\* the capture engine from the start of main
InitMain == MainInit /\ BodyIdle /\ NormIdle /\ SynthIdle
NextMain == MainNext
SpecMain == InitMain /\ [][NextMain]_vars

\* the body functions of the capture engine
InitBody == CaptureInit /\ BodyInit /\ NormIdle /\ SynthIdle
NextBody == Redact \/ Truncate
SpecBody == InitBody /\ [][NextBody]_vars

\* the noise filter of the capture engine
\* a run in which only the page behind page1 makes requests
NextOnePage ==
    \/ \E rid \in RequestIds, s \in RequestSamples :
          RequestWillBeSent("page1", rid, s)
    \/ \E rid \in RequestIds, r \in ResponseSamples :
          ResponseReceived("page1", rid, r)
    \/ \E rid \in RequestIds : LoadingFinished("page1", rid)
    \/ \E rid \in RequestIds, e \in ErrorTexts : LoadingFailed("page1", rid, e)
    \/ \E call \in calls, body \in ReplyBodies : BodyReply(call, body)
    \/ \E call \in calls, why \in RejectReasons : BodyReject(call, why)
    \/ TimerFires
    \/ \E sig \in {"SIGINT", "SIGTERM"} : Signal(sig)
SpecOnePage == Init /\ [][NextOnePage]_vars

\* two targets whose transports use the same request identifiers: the page
\* behind page1 issues the requests, the notifications arrive on page2
NextTargets ==
    \/ \E rid \in RequestIds, s \in RequestSamples :
          RequestWillBeSent("page1", rid, s)
    \/ \E rid \in RequestIds, r \in ResponseSamples :
          ResponseReceived("page2", rid, r)
    \/ \E rid \in RequestIds : LoadingFinished("page2", rid)
    \/ \E rid \in RequestIds, e \in ErrorTexts : LoadingFailed("page2", rid, e)
    \/ \E call \in calls, body \in ReplyBodies : BodyReply(call, body)
    \/ \E call \in calls, why \in RejectReasons : BodyReject(call, why)
SpecTargets == Init /\ [][NextTargets]_vars

InitCall == MainInit /\ REDACT = FALSE /\ BodyIdle /\ NormIdle /\ SynthIdle
NextCall ==
    \/ \E ws \in Conns : CallSend(ws)
    \/ \E ws \in Conns, id \in MessageIds, kind \in {"result", "error"} :
          CallMessage(ws, id, kind)
    \/ \E i \in 1..MaxCalls : CallTimeout(i)
SpecCall == InitCall /\ [][NextCall]_vars

InitNoise == CaptureIdle /\ NoiseInit /\ NormIdle /\ SynthIdle
NextNoise == AskNoise
SpecNoise == InitNoise /\ [][NextNoise]_vars

\* the endpoint normalizer
InitNorm == CaptureIdle /\ BodyIdle /\ NormInit /\ SynthIdle
NextNorm == Normalize
SpecNorm == InitNorm /\ [][NextNorm]_vars

\* the skill synthesizer
InitSynth == CaptureIdle /\ BodyIdle /\ NormIdle /\ SynthInit
NextSynth == Generate \/ DayPasses
SpecSynth == InitSynth /\ [][NextSynth]_vars

\* the analysis of the corpus by the skill synthesizer
InitAnalysis == CaptureIdle /\ BodyIdle /\ NormIdle /\ AnalysisInit
NextAnalysis == Analyze
SpecAnalysis == InitAnalysis /\ [][NextAnalysis]_vars

\* the schema inference of the skill synthesizer
InitCookies == CaptureIdle /\ BodyIdle /\ NormIdle /\ CookieCorpusInit
NextCookies == Analyze
SpecCookies == InitCookies /\ [][NextCookies]_vars

InitSchema == CaptureIdle /\ BodyIdle /\ NormIdle /\ CorpusIdle /\ DescribeInit
NextSchema == Describe
SpecSchema == InitSchema /\ [][NextSchema]_vars

----------------------------------------------------------------------------
(* Properties of the capture engine *)

Objs == 1..Len(heap)

InFlight(o) == \E i \in 1..Len(pendingRequests) : pendingRequests[i].obj = o

FetchOutstanding(o) == \E call \in calls : call.entry = o

\* how often object o occurs in the buckets of the store
Occurrences(o) ==
    Cardinality({p \in UNION {{<<d, i>> : i \in 1..Len(capturedByDomain[d])} :
                                d \in DOMAIN capturedByDomain} :
                    capturedByDomain[p[1]][p[2]] = o})

Stored(o) == Occurrences(o) >= 1

\* the body respects the cap: short enough, or cut at the cap and marked
WithinCap(body) ==
    \/ Length(body) <= MAX_BODY_SIZE
    \/ body.kind = "trunc" /\ body.keep = MAX_BODY_SIZE

\* C1: once the process has shut down and written its session files, every
\* PendingRequest that was created is an entry of the store the files were
\* written from, whatever the interleaving of notifications, body-fetch
\* outcomes and shutdown.
C1_NoRequestLost ==
    exited => \A o \in Objs : Stored(o)

\* C2: in every reachable state no PendingRequest object occurs more than
\* once across all per-domain buckets of the store, and the captured total
\* counts each stored object once.
C2_NeverFinalizedTwice ==
    /\ \A o \in Objs : Occurrences(o) <= 1
    /\ totalCaptured = Cardinality({o \in Objs : Stored(o)})

\* C2 witness: two objects are stored, one finalized by loading-failed and one
\* by a body fetch, and the process has shut down.
C2_Witness ==
    /\ exited
    /\ \E o1, o2 \in Objs :
          /\ Stored(o1) /\ heap[o1].responseBody.kind = "failed"
          /\ Stored(o2) /\ heap[o2].responseBody.kind = "trunc"

\* C3: a PendingRequest leaves the in-flight map only by being finalized
\* (stored, or handed to a body fetch that will store it) or flushed into the
\* store at shutdown; no step removes it and discards it.
C3_LeavesOnlyFinalized ==
    [][\A o \in Objs :
          (InFlight(o) /\ ~InFlight(o)') => (Stored(o)' \/ FetchOutstanding(o)')]_vars

\* C4: the flush-and-write path of shutdown runs at most once: nothing is
\* written before shutdown, afterwards every domain of the store has exactly
\* one session file, written once, holding all the entries of its bucket.
C4_ShutdownOnce ==
    /\ ~shuttingDown => files = <<>>
    /\ shuttingDown => /\ exited
                       /\ pendingRequests = <<>>
                 /\ DOMAIN files = DOMAIN capturedByDomain
    /\ \A d \in DOMAIN files :
          /\ Len(files[d]) = 1
          /\ Len(files[d][1].requests) = Len(capturedByDomain[d])

\* C4 witness: shutdown has run and wrote the session files of two domains.
C4_Witness ==
    /\ exited
    /\ ~timerArmed
    /\ Cardinality(DOMAIN files) = 2

\* C5: in every stored entry the request body and the response body are each
\* at most the cap long or cut at the cap and marked, with redaction on or
\* off and whichever path stored the entry.
C5_BodiesTruncated ==
    \A o \in Objs :
        Stored(o) => WithinCap(heap[o].requestBody) /\ WithinCap(heap[o].responseBody)

\* the host of the URL, or the domain made of some suffix of its labels, is
\* in the noise set
OnNoiseDomain(url) ==
    /\ UrlParses(url)
    /\ \E i \in 1..Len(url.host) : SubSeq(url.host, i, Len(url.host)) \in NOISE_DOMAINS

\* the path of the URL ends in "." and a static-asset extension, in any case
EndsInStaticExtension(url) ==
    /\ UrlParses(url)
    /\ LET p == Pathname(url)
       IN  \E ext \in STATIC_EXTENSIONS :
              /\ Len(p) > Len(ext)
              /\ p[Len(p) - Len(ext)] = "."
              /\ LowerCase(SubSeq(p, Len(p) - Len(ext) + 1, Len(p))) = ext

\* C12: every PendingRequest there is - in the in-flight map, awaited by a
\* body fetch, or in a bucket of the store - has resource type XHR or Fetch,
\* a URL on no noise domain and a path that ends in no static-asset
\* extension; every key of the in-flight map and every member of a bucket is
\* such an object.
C12_FilteredNeverStored ==
    /\ \A o \in Objs :
          /\ heap[o].resourceType \in {"XHR", "Fetch"}
          /\ ~OnNoiseDomain(heap[o].url)
          /\ ~EndsInStaticExtension(heap[o].url)
    /\ \A i \in 1..Len(pendingRequests) : pendingRequests[i].obj \in Objs
    /\ \A d \in DOMAIN capturedByDomain :
          \A i \in 1..Len(capturedByDomain[d]) : capturedByDomain[d][i] \in Objs

\* C12 witness: while notifications of every kind keep arriving, one request
\* is stored and another is in flight.
C12_Witness ==
    /\ ~exited
    /\ \E o1, o2 \in Objs : Stored(o1) /\ InFlight(o2) /\ heap[o1].url # heap[o2].url

\* C19: the step in which shutdown runs stores every object that is in the
\* in-flight map exactly once - it was in no bucket before and is in one
\* bucket, once, after - with the fields it has at that moment, which are
\* what the file of its domain holds for it; the step issues no protocol
\* call, and it leaves the in-flight map empty.
C19_ShutdownFlush ==
    [][(~shuttingDown /\ shuttingDown') =>
          /\ pendingRequests' = <<>>
          /\ calls' = calls /\ cdpId' = cdpId
          /\ heap' = heap
          /\ \A i \in 1..Len(pendingRequests) :
                LET o == pendingRequests[i].obj
                    d == getDomain(heap[o].url)
                IN  /\ Occurrences(o) = 0
                    /\ Cardinality({j \in 1..Len(capturedByDomain'[d]) :
                                       capturedByDomain'[d][j] = o}) = 1
                    /\ \A e \in DOMAIN capturedByDomain' :
                          e # d => \A j \in 1..Len(capturedByDomain'[e]) :
                                      capturedByDomain'[e][j] # o
                    /\ \E j \in 1..Len(capturedByDomain'[d]) :
                          /\ capturedByDomain'[d][j] = o
                          /\ files'[d][1].requests[j] = heap[o]]_vars

\* C19 witness: the process has shut down without ever having issued a body
\* fetch, and two requests are stored without a response body, one whose
\* response headers had arrived and one of which only the request was seen:
\* both were in the in-flight map when shutdown ran.
C19_Witness ==
    /\ exited /\ shuttingDown
    /\ cdpId = Cardinality(Conns)
    /\ pendingRequests = <<>>
    /\ \E o1, o2 \in Objs :
          /\ Stored(o1) /\ heap[o1].responseBody = NULL /\ heap[o1].responseStatus = 200
          /\ Stored(o2) /\ heap[o2].responseBody = NULL
          /\ heap[o2].responseStatus = NullStatus

\* the diagnostic string of a failed load: "[failed: " and the error text, or
\* "unknown" when the notification has none, and "]"
Diagnostic(errorText) ==
    [kind |-> "failed",
     src |-> Raw(<<IF errorText = "" THEN "unknown" ELSE errorText>>),
     keep |-> IF errorText = "" THEN 7 ELSE ErrorLen(errorText),
     total |-> 0]

\* C20: a step in which the loading-failed handler runs for an identifier of
\* the in-flight map removes the identifier from the map, leaves its entry
\* in a bucket of the store, once, with response status 0 and the diagnostic
\* string of the error text as response body, and issues no protocol call;
\* and no body fetch is ever outstanding for an entry finalized this way.
C20_LoadingFailedFinalizes ==
    [][/\ \A c \in Conns, rid \in RequestIds, errorText \in ErrorTexts :
             (Has(pendingRequests, rid) /\ LoadingFailed(c, rid, errorText)) =>
                 LET o == Get(pendingRequests, rid)
                     d == getDomain(heap[o].url)
                 IN  /\ ~Has(pendingRequests', rid)
                     /\ \A i \in 1..Len(pendingRequests') : pendingRequests'[i].obj # o
                     /\ Occurrences(o) = 0
                     /\ d \in DOMAIN capturedByDomain'
                     /\ capturedByDomain'[d][Len(capturedByDomain'[d])] = o
                     /\ Cardinality({j \in 1..Len(capturedByDomain'[d]) :
                                        capturedByDomain'[d][j] = o}) = 1
                     /\ heap'[o].responseStatus = 0
                     /\ heap'[o].responseBody = Diagnostic(errorText)
                     /\ calls' = calls /\ cdpId' = cdpId
       /\ \A call \in calls' :
             call.entry # NoObj => heap'[call.entry].responseBody.kind # "failed"]_vars

\* C20 witness: while the capture goes on, an entry is stored with status 0
\* and the diagnostic string of net::ERR_FAILED, and is not in the in-flight
\* map.
C20_Witness ==
    /\ ~exited
    /\ \E o \in Objs :
          /\ Stored(o) /\ ~InFlight(o) /\ ~FetchOutstanding(o)
          /\ heap[o].responseStatus = 0
          /\ heap[o].responseBody = Diagnostic("net::ERR_FAILED")

\* C21: while a body fetch is outstanding for an entry no step changes the
\* entry, and a step in which the fetch rejects - an error reply, a reply
\* without result, or the 10 s timeout - while the process runs leaves the
\* entry in the store exactly once, with a null response body and with the
\* status and headers it had when loading finished.
C21_BodyFetchFailureSoft ==
    [][/\ \A call \in calls :
             (call.entry # NoObj /\ call \in calls') =>
                 heap'[call.entry] = heap[call.entry]
       /\ \A call \in calls, why \in RejectReasons :
             (call.entry # NoObj /\ BodyReject(call, why)) =>
                 LET o == call.entry
                 IN  /\ Occurrences(o) = 0
                     /\ Cardinality({p \in UNION {{<<d, i>> : i \in 1..Len(capturedByDomain'[d])} :
                                                     d \in DOMAIN capturedByDomain'} :
                                        capturedByDomain'[p[1]][p[2]] = o}) = 1
                     /\ heap'[o] = heap[o]
                     /\ heap'[o].responseBody = NULL
                     /\ totalCaptured' = totalCaptured + 1]_vars

\* C21 witness: every body fetch that was issued has been settled, the
\* process runs, and an entry whose response headers had arrived is stored
\* with status 200, its headers and a null response body.
C21_Witness ==
    /\ ~exited
    /\ calls = {}
    /\ cdpId > Cardinality(Conns)
    /\ pendingRequests = <<>>
    /\ \E o \in Objs :
          /\ Stored(o)
          /\ heap[o].responseBody = NULL
          /\ heap[o].responseStatus = 200
          /\ heap[o].responseHeaders # <<>>

\* C22: a step in which a headers-received, loading-finished or
\* loading-failed notification is handled for an identifier that is not in
\* the in-flight map changes neither the map nor any entry nor any bucket
\* nor the captured total, and issues no protocol call: a step that changes
\* one of them is no such notification.
C22_UnknownIdNoOp ==
    [][\/ /\ pendingRequests' = pendingRequests
          /\ heap' = heap
          /\ capturedByDomain' = capturedByDomain
          /\ totalCaptured' = totalCaptured
          /\ calls' = calls
          /\ cdpId' = cdpId
       \/ \A c \in Conns, rid \in RequestIds :
             ~Has(pendingRequests, rid) =>
                /\ \A r \in ResponseSamples : ~ResponseReceived(c, rid, r)
                /\ ~LoadingFinished(c, rid)
                /\ \A errorText \in ErrorTexts : ~LoadingFailed(c, rid, errorText)]_vars

\* C22 witness: while notifications keep arriving, one identifier is in the
\* in-flight map, another is not, and the entry of a finalized request is
\* stored while a body fetch is outstanding for no entry.
C22_Witness ==
    /\ ~exited
    /\ calls = {}
    /\ \E rid1, rid2 \in RequestIds :
          Has(pendingRequests, rid1) /\ ~Has(pendingRequests, rid2)
    /\ \E o \in Objs : Stored(o) /\ ~InFlight(o)

\* the last two labels of the hostname, the whole hostname if it has at most
\* two
RegistrableDomain(url) ==
    LET n == Len(url.host)
    IN  [i \in 1..Min(2, n) |-> url.host[n - Min(2, n) + i]]

\* object o is a member of bucket d of the store
InBucket(store, d, o) ==
    d \in DOMAIN store /\ \E j \in 1..Len(store[d]) : store[d][j] = o

\* C23: an entry that is in the store is changed by no step - of a
\* notification, of a body-fetch completion or of shutdown - and stays where
\* it is: at the same place of the same bucket, which is the only bucket that
\* holds it and is keyed by the last two labels of the hostname of its URL
\* (the whole hostname if it has at most two).
C23_StoredEntryImmutable ==
    [][\A o \in Objs :
          \A d \in DOMAIN capturedByDomain :
              \A j \in 1..Len(capturedByDomain[d]) :
                  capturedByDomain[d][j] = o =>
                      /\ heap'[o] = heap[o]
                      /\ d = RegistrableDomain(heap[o].url)
                      /\ d \in DOMAIN capturedByDomain'
                      /\ Len(capturedByDomain'[d]) >= j
                      /\ capturedByDomain'[d][j] = o
                      /\ \A e \in DOMAIN capturedByDomain' :
                            InBucket(capturedByDomain', e, o) => e = d]_vars

\* C23 witness: the process has shut down after an entry with a hostname of
\* three labels was stored with the body its fetch returned and an entry
\* with a hostname of two labels was stored by the loading-failed handler,
\* each in the bucket of its last two labels.
C23_Witness ==
    /\ exited /\ shuttingDown
    /\ \E o1, o2 \in Objs :
          /\ Len(heap[o1].url.host) = 3 /\ heap[o1].responseBody.kind = "text"
          /\ InBucket(capturedByDomain, SubSeq(heap[o1].url.host, 2, 3), o1)
          /\ Len(heap[o2].url.host) = 2 /\ heap[o2].responseBody.kind = "failed"
          /\ InBucket(capturedByDomain, heap[o2].url.host, o2)

C25_CallCorrelation ==
    [][/\ (\E ws \in Conns : CallSend(ws)) =>
            /\ Len(promises') = Len(promises) + 1
            /\ \A i \in DOMAIN promises :
                  promises'[Len(promises')].id > promises[i].id
       /\ \A ws \in Conns, id \in MessageIds, kind \in {"result", "error"} :
            CallMessage(ws, id, kind) =>
              \A i \in DOMAIN promises :
                 (promises[i].id # id \/ promises[i].ws # ws) =>
                     promises'[i] = promises[i]
       /\ \A i \in DOMAIN promises :
            /\ i \in DOMAIN promises'
            /\ promises[i].outcome # "pending" =>
                  promises'[i].outcome = promises[i].outcome
            /\ promises'[i].outcome # promises[i].outcome =>
                  /\ promises[i].timer = "armed"
                  /\ \/ /\ promises'[i].outcome = "timeout"
                        /\ CallTimeout(i)
                     \/ /\ promises'[i].outcome \in {"result", "error"}
                        /\ CallMessage(promises[i].ws, promises[i].id,
                                       promises'[i].outcome)]_vars

\* a call that timed out and whose reply came late, next to a later call on
\* the other connection that its reply resolved
C25_Witness ==
    \E i, j \in DOMAIN promises :
       /\ i < j
       /\ promises[i].ws # promises[j].ws
       /\ promises[i].outcome = "timeout"
       /\ ~promises[i].listening
       /\ promises[j].outcome = "result"
       /\ promises[j].id > promises[i].id

\* C26: a headers-received, loading-finished or loading-failed notification
\* that arrives on page2 changes no PendingRequest created from page1: it
\* leaves the objects, the in-flight map and the store as they are and starts
\* no body fetch.  (Under SpecTargets every object is created from page1.)
C26_ConnectionsIsolated ==
    [][\A rid \in RequestIds :
          (\/ \E r \in ResponseSamples : ResponseReceived("page2", rid, r)
           \/ LoadingFinished("page2", rid)
           \/ \E e \in ErrorTexts : LoadingFailed("page2", rid, e))
          => /\ heap' = heap
             /\ pendingRequests' = pendingRequests
             /\ capturedByDomain' = capturedByDomain
             /\ calls' = calls]_vars

\* C17: truncateBody returns a body of at most MAX_BODY_SIZE characters as it
\* is, so that truncating the result again changes nothing, and for a body
\* of MAX_BODY_SIZE + 1 characters its first MAX_BODY_SIZE characters
\* followed by the marker that names the cap and the total MAX_BODY_SIZE + 1.
C17_TruncationBoundary ==
    bodyOut.op = "truncate" =>
        /\ Length(bodyArg) <= MAX_BODY_SIZE
              => bodyOut.once = bodyArg /\ bodyOut.twice = bodyOut.once
        /\ Length(bodyArg) = MAX_BODY_SIZE + 1
              => /\ bodyOut.once = [kind |-> "trunc", src |-> bodyArg.src,
                                    keep |-> MAX_BODY_SIZE, total |-> MAX_BODY_SIZE + 1]
                 /\ Length(bodyOut.once) = MAX_BODY_SIZE + MarkerLen(MAX_BODY_SIZE + 1)

\* C17 witness: a body of exactly MAX_BODY_SIZE characters was truncated.
C17_Witness ==
    /\ bodyOut.op = "truncate"
    /\ bodyArg.kind = "text"
    /\ Length(bodyArg) = MAX_BODY_SIZE

\* C18: with --redact, redactBody returns for a body with a sensitive word
\* exactly the sentinel, which holds nothing of the body, and any other body
\* as it is; without --redact it returns every body as it is.
C18_RedactionAllOrNothing ==
    bodyOut.op = "redact" =>
        IF REDACT /\ bodyArg.kind = "text" /\ bodyArg.keep > 0
              /\ ContentWords(bodyArg.src) \cap SENSITIVE_WORDS # {}
        THEN bodyOut.once = [kind |-> "redacted", src |-> NoContent, keep |-> 0, total |-> 0]
        ELSE bodyOut.once = bodyArg

\* C18 witness: with --redact, a body with the key "password" was given to
\* redactBody.
C18_Witness ==
    /\ bodyOut.op = "redact"
    /\ REDACT
    /\ bodyArg.kind = "text"
    /\ bodyArg.src = PasswordJson

----------------------------------------------------------------------------
(* Properties of the endpoint normalizer *)

\* the segments of a path: what stands between its slashes
RECURSIVE SegmentsFrom(_, _)
SegmentsFrom(p, i) ==
    IF i > Len(p) THEN <<>>
    ELSE LET e == IF \E j \in (i + 1)..Len(p) : p[j] = "/"
                  THEN CHOOSE j \in (i + 1)..Len(p) :
                          /\ p[j] = "/"
                          /\ \A k \in (i + 1)..(j - 1) : p[k] # "/"
                  ELSE Len(p) + 1
         IN  <<SubSeq(p, i + 1, e - 1)>> \o SegmentsFrom(p, e)

IsNumeric(seg) == Len(seg) >= 1 /\ \A k \in 1..Len(seg) : seg[k] \in DigitChars

\* the segments of the path of the input URL, and of the result
InSegs == SegmentsFrom(Pathname(urlStr), 1)
OutSegs == SegmentsFrom(normalized.rest, 1)

\* the input was a URL and normalizePath has returned
Normalized == normDone /\ UrlParses(urlStr)

IdSeg == Tail(ID_PLACEHOLDER)
TsSeg == Tail(TS_PLACEHOLDER)

\* C6 as stated: every purely numeric segment of the path of a URL comes out
\* as {id}, and /users/48291/orders/3 comes out as /users/{id}/orders/{id}.
C6_EveryNumericSegment ==
    Normalized =>
        /\ Len(OutSegs) = Len(InSegs)
        /\ \A k \in 1..Len(InSegs) : IsNumeric(InSegs[k]) => OutSegs[k] = IdSeg
        /\ Pathname(urlStr) = UsersOrdersPath =>
              normalized.rest = JoinPath(<<<<"u", "s", "e", "r", "s">>, IdSeg,
                                           <<"o", "r", "d", "e", "r", "s">>, IdSeg>>)

\* C6 amended: every purely numeric segment of 2 to 7 digits comes out as
\* {id}, a segment of a single digit comes out unchanged, and
\* /users/48291/orders/3 comes out as /users/{id}/orders/3.
C6_NumericSegments2to7 ==
    Normalized =>
        /\ Len(OutSegs) = Len(InSegs)
        /\ \A k \in 1..Len(InSegs) :
              /\ (IsNumeric(InSegs[k]) /\ Len(InSegs[k]) \in 2..7) => OutSegs[k] = IdSeg
              /\ (IsNumeric(InSegs[k]) /\ Len(InSegs[k]) = 1) => OutSegs[k] = InSegs[k]
        /\ Pathname(urlStr) = UsersOrdersPath =>
              normalized.rest = JoinPath(<<<<"u", "s", "e", "r", "s">>, IdSeg,
                                           <<"o", "r", "d", "e", "r", "s">>, <<"3">>>>)

\* C6 witness: the URL with path /users/48291/orders/3 has been normalized.
C6_Witness ==
    /\ Normalized
    /\ Pathname(urlStr) = UsersOrdersPath
    /\ \E k \in 1..Len(InSegs) : IsNumeric(InSegs[k]) /\ OutSegs[k] = IdSeg
    /\ \E k \in 1..Len(InSegs) : IsNumeric(InSegs[k]) /\ OutSegs[k] = InSegs[k]

\* C7: every purely numeric segment of 10 to 13 digits comes out as {ts}, and
\* /sync/1700000000000 comes out as /sync/{ts}.
C7_TimestampSegments ==
    Normalized =>
        /\ \A k \in 1..Len(InSegs) :
              (IsNumeric(InSegs[k]) /\ Len(InSegs[k]) \in 10..13) =>
                  (k <= Len(OutSegs) /\ OutSegs[k] = TsSeg)
        /\ Pathname(urlStr) = SyncPath =>
              normalized.rest = JoinPath(<<<<"s", "y", "n", "c">>, TsSeg>>)

----------------------------------------------------------------------------
(* Properties of the skill synthesizer *)

\* the header carries a credential: Authorization, or a name with csrf,
\* token or x-api in it
CredentialHeader(key) ==
    LowerCase(key) = AUTHORIZATION \/ NamesToken(LowerCase(key))

\* the values of the credential headers of the requests of the capture
CredentialValues ==
    UNION {{hs[k][2] : k \in {k \in 1..Len(hs) : CredentialHeader(hs[k][1])}} :
              hs \in {capture.requests[i].requestHeaders :
                         i \in 1..Len(capture.requests)}}

\* C9: all the documents that runs of main produced from the same capture
\* and the same skill name are equal, whenever the runs happened.
C9_RenderingDeterministic ==
    \A i, j \in 1..Len(docs) : docs[i] = docs[j]

\* C10: no line of a generated document contains the value of an
\* Authorization header, or of another auth-token header, of a request of
\* the capture.
C10_NoCredentialInDocument ==
    \A d \in 1..Len(docs) : \A l \in 1..Len(docs[d]) : \A v \in CredentialValues :
        v # <<>> => ~Includes(docs[d][l].text, v)

\* the endpoints of the capture whose representative has a response body
\* that JSON.parse accepts and that is of one of the given JSON types
JsonResponses(types) ==
    LET endpoints == sortedEndpoints(capture.requests)
    IN  {i \in 1..Len(endpoints) :
            /\ Parses(Representative(endpoints[i]).responseBody)
            /\ Representative(endpoints[i]).responseBody.src.t \in types}

ResponseSchemaBlocks(doc) ==
    {l \in 1..Len(doc) : doc[l].text = <<"**Response schema:**">>}

\* C27: a generated document has a response schema block for every endpoint
\* whose representative's response body parses as a JSON object or array,
\* and none for an endpoint whose representative's response body is not
\* valid JSON.
C27_ResponseSchemaRendered ==
    \A d \in 1..Len(docs) :
       /\ Cardinality(ResponseSchemaBlocks(docs[d]))
              >= Cardinality(JsonResponses({"object", "array"}))
       /\ Cardinality(ResponseSchemaBlocks(docs[d]))
              <= Cardinality(JsonResponses({"object", "array", "null", "number",
                                            "boolean", "string"}))

----------------------------------------------------------------------------
(* Properties of the capture engine from the start of main *)

\* C11: no step in which a protocol call is settled - answered, rejected or
\* timed out, a Network.enable call of main or a body fetch of a handler -
\* ends the process: it keeps running until shutdown writes the files.
C11_TimeoutAbortsNothing ==
    [][(\E call \in calls : call \notin calls') => ~exited']_vars

----------------------------------------------------------------------------
(* Properties of the skill synthesizer: analysis of the corpus *)

Names(list) == {list[i] : i \in 1..Len(list)}

\* the signals of a Map of counts whose count is at least max(1, n / 2)
AtLeastHalf(m, n) == {m[i][1] : i \in {j \in 1..Len(m) : m[j][2] >= 1 /\ 2 * m[j][2] >= n}}

CountOf(m, name) == m[CHOOSE i \in 1..Len(m) : m[i][1] = name][2]

NonIncreasing(m, list) ==
    \A i, j \in 1..Len(list) : i < j => CountOf(m, list[i]) >= CountOf(m, list[j])

NoDuplicates(list) == \A i, j \in 1..Len(list) : list[i] = list[j] => i = j

\* of 10 requests, a cookie counted 6 times is consistent and one counted 4
\* times is not
SixOfTen ==
    /\ detectAuthPatterns(TenRequests).cookieNames
          = <<<<<<"a", "b">>, 4>>, <<<<"s", "e", "s", "s", "i", "o", "n", "_", "i", "d">>, 6>>>>
    /\ consistentCookies(TenRequests) = <<<<"s", "e", "s", "s", "i", "o", "n", "_", "i", "d">>>>

Cluster(requests, method, path) ==
    SelectSeq(requests,
              LAMBDA r : r.method = method /\ StringOf(normalizePath(r.url)) = path)

\* C14: after the analysis the Endpoints partition the corpus by (method,
\* normalized path): every request has exactly one Endpoint with its method
\* and its normalized path, no two Endpoints share both, the requests of an
\* Endpoint are exactly the requests of the corpus with its method and
\* normalized path, in capture order, and its query parameters are exactly
\* the parameter names of the URLs of its requests, each once.
C14_ClusteringPartitions ==
    analysis # NoAnalysis =>
        LET requests == capture.requests
            eps == analysis.endpoints
        IN  /\ \A i \in 1..Len(requests) :
                  Cardinality({k \in 1..Len(eps) :
                      /\ eps[k].method = requests[i].method
                      /\ eps[k].normalizedPath = StringOf(normalizePath(requests[i].url))
                      /\ requests[i] \in Names(eps[k].requests)}) = 1
            /\ \A k, l \in 1..Len(eps) :
                  (eps[k].method = eps[l].method
                      /\ eps[k].normalizedPath = eps[l].normalizedPath) => k = l
            /\ \A k \in 1..Len(eps) :
                  /\ eps[k].requests # <<>>
                  /\ eps[k].requests = Cluster(requests, eps[k].method, eps[k].normalizedPath)
                  /\ NoDuplicates(eps[k].queryParams)
                  /\ Names(eps[k].queryParams)
                        = UNION {Names(SearchParamKeys(eps[k].requests[i].url)) :
                                    i \in 1..Len(eps[k].requests)}

\* C14 witness: in a corpus of 3 requests the first and the third, captured
\* with different paths and query strings, are the two requests of one
\* Endpoint, in this order, whose query parameters are the two names seen on
\* them; the second request is in another Endpoint.
C14_Witness ==
    /\ analysis # NoAnalysis
    /\ Len(capture.requests) = 3
    /\ capture.requests[1].url.rest # capture.requests[3].url.rest
    /\ Pathname(capture.requests[1].url) # Pathname(capture.requests[3].url)
    /\ Len(analysis.endpoints) = 2
    /\ \E k \in 1..2 :
          /\ analysis.endpoints[k].requests = <<capture.requests[1], capture.requests[3]>>
          /\ Len(analysis.endpoints[k].queryParams) = 2

\* the request has a non-empty response body and a status in 200..399
Qualifies(r) ==
    /\ r.responseBody.kind # "null"
    /\ Length(r.responseBody) > 0
    /\ r.responseStatus \in 200..399

\* C15: after the analysis the representative of every Endpoint is its first
\* request, in cluster order, with a non-empty response body and a status in
\* 200..399, and the first request of the cluster when none has both.
C15_RepresentativeSelection ==
    analysis # NoAnalysis =>
        \A k \in 1..Len(analysis.endpoints) :
            LET rs == analysis.endpoints[k].requests
                q == {i \in 1..Len(rs) : Qualifies(rs[i])}
                chosen == analysis.representatives[k]
            IN  IF q = {} THEN chosen = rs[1]
                ELSE \E i \in q : chosen = rs[i] /\ \A j \in q : i <= j

\* C15 witness: an Endpoint has two requests, the first without a response
\* body and the second with a body and status 200, and the second is its
\* representative.
C15_Witness ==
    /\ analysis # NoAnalysis
    /\ \E k \in 1..Len(analysis.endpoints) :
          LET rs == analysis.endpoints[k].requests
          IN  /\ Len(rs) = 2
              /\ rs[1].responseBody = NULL
              /\ Qualifies(rs[2]) /\ rs[2].responseStatus = 200
              /\ analysis.representatives[k] = rs[2]
              /\ rs[1] # rs[2]

\* the requests of the corpus that carry a cookie of the given name
RequestsWithCookie(requests, name) ==
    {i \in 1..Len(requests) :
        \E k \in 1..Len(requests[i].requestHeaders) :
           /\ LowerCase(requests[i].requestHeaders[k][1]) = COOKIE
           /\ name \in Names(CookieNamesOf(requests[i].requestHeaders[k][2]))}

\* the requests of the corpus that carry the given auth header signal
RequestsWithSignal(requests, sig) ==
    {i \in 1..Len(requests) :
        \E k \in 1..Len(requests[i].requestHeaders) :
           LET key == requests[i].requestHeaders[k][1]
           IN  \/ NamesToken(LowerCase(key)) /\ key = sig
               \/ /\ LowerCase(key) = AUTHORIZATION
                  /\ AuthLabel(requests[i].requestHeaders[k][2]) = sig}

\* C28: in the analysis of a corpus of N requests the count of every cookie
\* name and of every auth header signal is the number of requests that carry
\* it, so no count exceeds N, and every consistent cookie is carried by at
\* least half of the requests.
C28_CountsAreRequests ==
    analysis # NoAnalysis =>
        LET requests == capture.requests
            found == analysis.found
        IN  /\ \A i \in 1..Len(found.cookieNames) :
                  /\ found.cookieNames[i][2]
                        = Cardinality(RequestsWithCookie(requests, found.cookieNames[i][1]))
                  /\ found.cookieNames[i][2] <= Len(requests)
            /\ \A i \in 1..Len(found.authHeaders) :
                  /\ found.authHeaders[i][2]
                        = Cardinality(RequestsWithSignal(requests, found.authHeaders[i][1]))
                  /\ found.authHeaders[i][2] <= Len(requests)
            /\ \A i \in 1..Len(analysis.cookies) :
                  2 * Cardinality(RequestsWithCookie(requests, analysis.cookies[i]))
                     >= Len(requests)

----------------------------------------------------------------------------
(* Properties of the schema inference *)

\* the value with the members of every container nested bound or more
\* levels deep replaced by null
RECURSIVE Collapse(_, _, _)
Collapse(v, level, bound) ==
    CASE v.t = "array" ->
            JArray([i \in 1..Len(v.items) |->
                       IF level >= bound THEN JNull
                       ELSE Collapse(v.items[i], level + 1, bound)])
      [] v.t = "object" ->
            JObject([i \in 1..Len(v.fields) |->
                        <<v.fields[i][1],
                          IF level >= bound THEN JNull
                          ELSE Collapse(v.fields[i][2], level + 1, bound)>>])
      [] OTHER -> v

\* {"a":1,"b":[1,2,3]}
ExampleObject ==
    JObject(<<<<"a", JNumber>>, <<"b", JArray(<<JNumber, JNumber, JNumber>>)>>>>)

\* C16: a call of describeType at depth k with bound d returns, for a
\* container with k >= d, its item count or key count and nothing of its
\* members - nor does the result depend on the members of any container
\* nested d or more levels deep; for an empty array "[]" at any depth; for a
\* non-empty array with k < d the description of its first element at depth
\* k + 1 followed by the true length; and for {"a":1,"b":[1,2,3]} at depth 0
\* with bound 2 an object whose field b is "[number] (3 items)".
C16_SchemaDepthBound ==
    described.done =>
        LET v == describeCall.val
            k == describeCall.depth
            d == describeCall.maxDepth
            out == described.schema
        IN  /\ (v.t = "array" /\ v.items # <<>> /\ k >= d)
                  => out = <<"[...", ToString(Len(v.items)), " items]">>
            /\ (v.t = "object" /\ k >= d)
                  => out = <<"{...", ToString(Len(v.fields)), " keys}">>
            /\ out = describeType(Collapse(v, k, d), k, d)
            /\ (v.t = "array" /\ v.items = <<>>) => out = <<"[]">>
            /\ (v.t = "array" /\ v.items # <<>> /\ k < d)
                  => out = <<"[">> \o describeType(v.items[1], k + 1, d)
                              \o <<"] (", ToString(Len(v.items)), " items)">>
            /\ (v = ExampleObject /\ k = 0 /\ d = 2)
                  => out = <<"{\n", "  ", "a", ": ", "number", "\n",
                             "  ", "b", ": ", "[", "number", "] (", "3", " items)", "\n}">>

\* C16 witness: {"a":1,"b":[1,2,3]} was described at depth 0 with bound 2.
C16_Witness ==
    /\ described.done
    /\ describeCall = [val |-> ExampleObject, depth |-> 0, maxDepth |-> 2]

====
